---- MODULE Spec2Model ----
(***************************************************************************)
(* Chain event ingestion and checkpointing engine of the two chain-watching *)
(* scripts: the ERC-1155 items monitor (items_erc1155_monitor.js) and the   *)
(* ERC-721 monitor (egg_premium.js).  Both share scanHistorical,            *)
(* startLivePoll/tick, querySlice and the loadProgress/saveProgress and     *)
(* loadDb/saveDb helpers; they differ in the event shapes and in the key    *)
(* enrichAndPersist uses to detect a duplicate.                             *)
(*                                                                         *)
(* One step of the model is one continuation of the JavaScript event loop:  *)
(* the code that runs, without interruption, from the resolution of one     *)
(* awaited promise to the next await.                                       *)
(***************************************************************************)
EXTENDS Integers, Sequences, FiniteSets, Bags, TLC

\* ---------------------------------------------------------------- bounds
\* Highest chain head the model lets the ledger reach.
MaxHead == 3
\* How many times the process may be killed and started again.
MaxRestarts == 1
\* How many executions of tick may be in flight at once.
MaxInFlight == 2

\* Range scheduling on its own: the largest start, end and maxSize tried.
MaxStart == 3
MaxEnd == 6
MaxChunk == 3

\* The handlers on their own: the longest ids/values arrays of a TransferBatch.
MaxBatch == 2

\* The files on their own: the largest lastProcessed found in the progress file.
MaxStored == 2

\* ------------------------------------------------------- configuration
\* process.env.FROM_BLOCK unset.
NoFromBlock == -1

\* Values of the env-configured CONFIRMATIONS, CHUNK, INIT_LOOKBACK and
\* FROM_BLOCK the model starts from (parseInt of the environment, scaled to
\* the modelled ledger).
ConfirmationsValues == {0, 1}
ChunkValues == {0, 1}
LookbackValues == {1}
FromBlockValues == {NoFromBlock, 2}
Scripts == {"items", "egg"}

VARIABLES
    script,         \* which of the two scripts runs
    CONFIRMATIONS,  \* const CONFIRMATIONS
    CHUNK,          \* const CHUNK
    INIT_LOOKBACK,  \* const INIT_LOOKBACK
    FROM_BLOCK,     \* process.env.FROM_BLOCK, or NoFromBlock
    sched,          \* range scheduling on its own: inputs, loop variable, ranges
    handler,        \* the handlers on their own: the event, the calls they make
    store,          \* the files on their own: their contents, what was loaded
    startup,        \* the start of the script on its own: the environment, how far it got
    notif,          \* the alert checks on their own: the stored alert, each check's locals
    monitor,        \* the monitoring timers on their own: the handles, the cycles in flight
    head,           \* the ledger's current height (provider.getBlockNumber)
    progress,       \* PROGRESS_PATH: the persisted lastProcessed, 0 when absent
    db,             \* OUT_PATH: the persisted rows
    mainPc,         \* position of the main async function
    lastProcessed,  \* startLivePoll's closure variable
    bf,             \* the locals of scanHistorical's loop
    ticks,          \* the executions of tick in flight: a bag of their locals
    restarts,       \* number of process restarts so far
    scanned,        \* heights covered by a querySlice call that completed
    origin          \* fromBlock of the backfill that started without a checkpoint

vars == <<script, CONFIRMATIONS, CHUNK, INIT_LOOKBACK, FROM_BLOCK, sched, handler, store, startup,
          notif, monitor, head,
          progress, db, mainPc, lastProcessed, bf, ticks, restarts, scanned, origin>>

\* What no step of the engine changes.
cfgVars == <<script, CONFIRMATIONS, CHUNK, INIT_LOOKBACK, FROM_BLOCK, sched, handler, store,
             startup, notif, monitor>>

Min(a, b) == IF a <= b THEN a ELSE b
Max(a, b) == IF a >= b THEN a ELSE b

\* ------------------------------------------------------------ strings
\* String.prototype.toLowerCase on the strings of the model.
ToLowerCase(s) ==
    CASE s = "0xWALLET" -> "0xwallet"
      [] s = "0xWallet" -> "0xwallet"
      [] s = "0xOther"  -> "0xother"
      [] s = "0xSender" -> "0xsender"
      [] s = "0xB2"     -> "0xb2"
      [] OTHER          -> s

\* const WATCH_WALLET = (process.env.WATCH_WALLET || "").toLowerCase()
WATCH_WALLET == ToLowerCase("0xWALLET")

\* const WATCH_TOKEN_IDS = new Set(Object.keys(ITEM_TYPES))
WATCH_TOKEN_IDS == {4, 5} \cup (73..86)

\* ------------------------------------------------------------- ledger
\* TransferSingle logs of the ERC-1155 contract, in block order.
SingleLogs ==
    << [from |-> "0xSender", to |-> "0xWallet", id |-> 5, value |-> 2,
        blockNumber |-> 2, transactionHash |-> "0xB2"],
       [from |-> "0xSender", to |-> "0xOther", id |-> 4, value |-> 1,
        blockNumber |-> 3, transactionHash |-> "0xc3"],
       [from |-> "0xSender", to |-> "0xWallet", id |-> 4, value |-> 0,
        blockNumber |-> 3, transactionHash |-> "0xd3"],
       [from |-> "0xSender", to |-> "0xWallet", id |-> 999, value |-> 1,
        blockNumber |-> 3, transactionHash |-> "0xe3"],
       [from |-> "0xSender", to |-> "0xWallet", id |-> 73, value |-> 1,
        blockNumber |-> 4, transactionHash |-> "0xa4"] >>

\* TransferBatch logs of the ERC-1155 contract, in block order.  The second
\* log belongs to the transaction of the TransferSingle log of block 2 (the
\* node reports its hash in lower case there).
BatchLogs ==
    << [from |-> "0xSender", to |-> "0xWallet", ids |-> <<5, 999, 73>>,
        values |-> <<3, 7, 4>>, blockNumber |-> 1, transactionHash |-> "0xa1"],
       [from |-> "0xSender", to |-> "0xWallet", ids |-> <<4, 74>>,
        values |-> <<1, 6>>, blockNumber |-> 2, transactionHash |-> "0xb2"],
       [from |-> "0xSender", to |-> "0xWallet", ids |-> <<999, 5>>,
        values |-> <<1, 0>>, blockNumber |-> 3, transactionHash |-> "0xb3"],
       [from |-> "0xSender", to |-> "0xOther", ids |-> <<4, 5>>,
        values |-> <<1, 1>>, blockNumber |-> 3, transactionHash |-> "0xa3"] >>

\* Transfer logs of the ERC-721 contract, in block order.  Block 2 holds one
\* transaction that moves two tokens to the watched wallet.
TransferLogs ==
    << [from |-> "0xSender", to |-> "0xWallet", tokenId |-> 11,
        blockNumber |-> 1, transactionHash |-> "0xa1"],
       [from |-> "0xSender", to |-> "0xWallet", tokenId |-> 12,
        blockNumber |-> 2, transactionHash |-> "0xb2"],
       [from |-> "0xSender", to |-> "0xWallet", tokenId |-> 13,
        blockNumber |-> 2, transactionHash |-> "0xb2"],
       [from |-> "0xSender", to |-> "0xOther", tokenId |-> 14,
        blockNumber |-> 3, transactionHash |-> "0xc3"],
       [from |-> "0xSender", to |-> "0xWallet", tokenId |-> 16,
        blockNumber |-> 4, transactionHash |-> "0xa4"] >>

\* contract.queryFilter(filter, start, end) without an address topic.
QueryFilter(logs, start, end) ==
    SelectSeq(logs, LAMBDA l : l.blockNumber >= start /\ l.blockNumber <= end)

\* contract.queryFilter(contract.filters.Transfer(null, WATCH_WALLET), start, end)
QueryFilterTo(logs, start, end) ==
    SelectSeq(logs, LAMBDA l : /\ l.blockNumber >= start
                               /\ l.blockNumber <= end
                               /\ ToLowerCase(l.to) = WATCH_WALLET)

\* ------------------------------------------------------ record store
\* Mutant: the total is the last amount, not the sum.
SumAmountsLast(amounts) ==
    IF amounts = <<>> THEN 0 ELSE amounts[Len(amounts)]

\* amounts.reduce((sum, amt) => sum + BigInt(amt.toString()), 0n)
RECURSIVE SumAmounts(_)
SumAmounts(amounts) ==
    IF amounts = <<>> THEN 0 ELSE Head(amounts) + SumAmounts(Tail(amounts))

\* One step of the stable sort: x goes behind every row whose blockNumber is
\* not smaller (the comparator b.blockNumber - a.blockNumber gives <= 0).
RECURSIVE InsertDesc(_, _)
InsertDesc(rows, x) ==
    IF rows = <<>> THEN <<x>>
    ELSE IF Head(rows).blockNumber >= x.blockNumber
         THEN <<Head(rows)>> \o InsertDesc(Tail(rows), x)
         ELSE <<x>> \o rows

\* Mutant: the rows are saved in the order they were pushed.
SortDescNot(rows) == rows

\* db.sort((a, b) => b.blockNumber - a.blockNumber), a stable sort.
RECURSIVE SortDesc(_)
SortDesc(rows) ==
    IF rows = <<>> THEN <<>>
    ELSE InsertDesc(SortDesc(SubSeq(rows, 1, Len(rows) - 1)), rows[Len(rows)])

\* Mutant: the stored hash is compared as it is, without toLowerCase().
TxHashExistsCaseSensitive(rows, txHash) ==
    \E i \in 1..Len(rows) : rows[i].txHash = txHash

\* db.findIndex((x) => x.txHash.toLowerCase() === txHash) !== -1
TxHashExists(rows, txHash) ==
    \E i \in 1..Len(rows) : ToLowerCase(rows[i].txHash) = txHash

\* Mutant: the row is pushed without the look-up of its transaction hash.
EnrichAndPersistItemsNoCheck(rows, call) ==
    SortDesc(Append(rows, [receivedTo |-> call.to,
                           sender |-> call.from,
                           tokenIds |-> call.tokenIds,
                           amounts |-> call.amounts,
                           totalAmount |-> SumAmounts(call.amounts),
                           blockNumber |-> call.blockNumber,
                           txHash |-> call.transactionHash]))

\* enrichAndPersist of the ERC-1155 monitor, after provider.getBlock resolved:
\* the row is built, and pushed unless its transaction hash is already stored.
EnrichAndPersistItems(rows, call) ==
    LET row == [receivedTo |-> call.to,
                sender |-> call.from,
                tokenIds |-> call.tokenIds,
                amounts |-> call.amounts,
                totalAmount |-> SumAmounts(call.amounts),
                blockNumber |-> call.blockNumber,
                txHash |-> call.transactionHash]
        txHash == ToLowerCase(call.transactionHash)
    IN IF ~TxHashExists(rows, txHash) THEN SortDesc(Append(rows, row)) ELSE rows

\* makeKey(row) of egg_premium.js: `${row.txHash.toLowerCase()}_${row.tokenId}`
MakeKey(row) == <<ToLowerCase(row.txHash), row.tokenId>>

\* enrichAndPersist of egg_premium.js, after provider.getBlock and
\* fetchEggType resolved.
EnrichAndPersistEgg(rows, call) ==
    LET row == [receivedTo |-> call.to,
                sender |-> call.from,
                tokenId |-> call.tokenId,
                blockNumber |-> call.blockNumber,
                txHash |-> call.transactionHash]
        key == MakeKey(row)
    IN IF ~(\E i \in 1..Len(rows) : MakeKey(rows[i]) = key)
       THEN SortDesc(Append(rows, row))
       ELSE rows

\* Mutant: the store is saved from a list that holds the new row alone, as
\* if the rows had been loaded before another execution appended.
EnrichAndPersistOverwrites(rows, call) ==
    IF script = "items" THEN EnrichAndPersistItems(<<>>, call)
    ELSE EnrichAndPersistEgg(<<>>, call)

EnrichAndPersist(rows, call) ==
    IF script = "items" THEN EnrichAndPersistItems(rows, call)
    ELSE EnrichAndPersistEgg(rows, call)

\* -------------------------------------------------- filter & normalizer
\* Mutant: the identifier of a TransferSingle is not looked up in the watch-set.
HandleTransferSingleAnyId(ev) ==
    LET fromAddr == ToLowerCase(ev.from)
        toAddr == ToLowerCase(ev.to)
    IN IF ev.id = 0 \/ ev.value = 0 THEN <<>>
       ELSE IF toAddr # WATCH_WALLET THEN <<>>
       ELSE << [from |-> fromAddr, to |-> toAddr, tokenIds |-> <<ev.id>>,
                amounts |-> <<ev.value>>, blockNumber |-> ev.blockNumber,
                transactionHash |-> ev.transactionHash] >>

\* Mutant: a TransferSingle of amount 0 is handled like any other.
HandleTransferSingleKeepsZero(ev) ==
    LET fromAddr == ToLowerCase(ev.from)
        toAddr == ToLowerCase(ev.to)
    IN IF toAddr # WATCH_WALLET THEN <<>>
       ELSE IF ev.id \notin WATCH_TOKEN_IDS THEN <<>>
       ELSE << [from |-> fromAddr, to |-> toAddr, tokenIds |-> <<ev.id>>,
                amounts |-> <<ev.value>>, blockNumber |-> ev.blockNumber,
                transactionHash |-> ev.transactionHash] >>

\* handleTransferSingle: the calls of enrichAndPersist it makes (none or one).
HandleTransferSingle(ev) ==
    LET fromAddr == ToLowerCase(ev.from)
        toAddr == ToLowerCase(ev.to)
    IN IF ev.id = 0 \/ ev.value = 0 THEN <<>>
       ELSE IF toAddr # WATCH_WALLET THEN <<>>
       ELSE IF ev.id \notin WATCH_TOKEN_IDS THEN <<>>
       ELSE << [from |-> fromAddr, to |-> toAddr, tokenIds |-> <<ev.id>>,
                amounts |-> <<ev.value>>, blockNumber |-> ev.blockNumber,
                transactionHash |-> ev.transactionHash] >>

\* Mutant: every kept identifier is paired with the first amount of the event.
FilterBatchFirstValue(ids, values, i) ==
    LET keep == SelectSeq(ids, LAMBDA id : id \in WATCH_TOKEN_IDS)
    IN [ids |-> keep, values |-> [k \in 1..Len(keep) |-> values[1]]]

\* The loop of handleTransferBatch from index i on: filteredIds, filteredValues.
RECURSIVE FilterBatch(_, _, _)
FilterBatch(ids, values, i) ==
    IF i > Len(ids) THEN [ids |-> <<>>, values |-> <<>>]
    ELSE LET rest == FilterBatch(ids, values, i + 1)
         IN IF i > Len(values) \/ ids[i] = 0 \/ values[i] = 0 THEN rest
            ELSE IF ids[i] \notin WATCH_TOKEN_IDS THEN rest
            ELSE [ids |-> <<ids[i]>> \o rest.ids,
                  values |-> <<values[i]>> \o rest.values]

\* Mutant: the receiver of a batch is not compared with the watched account.
HandleTransferBatchAnyReceiver(ev) ==
    LET fromAddr == ToLowerCase(ev.from)
        toAddr == ToLowerCase(ev.to)
        filtered == FilterBatch(ev.ids, ev.values, 1)
    IN IF Len(filtered.ids) > 0
       THEN << [from |-> fromAddr, to |-> toAddr, tokenIds |-> filtered.ids,
                amounts |-> filtered.values, blockNumber |-> ev.blockNumber,
                transactionHash |-> ev.transactionHash] >>
       ELSE <<>>

\* handleTransferBatch: the calls of enrichAndPersist it makes (none or one).
HandleTransferBatch(ev) ==
    LET fromAddr == ToLowerCase(ev.from)
        toAddr == ToLowerCase(ev.to)
        filtered == FilterBatch(ev.ids, ev.values, 1)
    IN IF toAddr # WATCH_WALLET THEN <<>>
       ELSE IF Len(filtered.ids) > 0
            THEN << [from |-> fromAddr, to |-> toAddr, tokenIds |-> filtered.ids,
                     amounts |-> filtered.values, blockNumber |-> ev.blockNumber,
                     transactionHash |-> ev.transactionHash] >>
            ELSE <<>>

RECURSIVE HandleAll(_, _)
HandleAll(logs, isBatch) ==
    IF logs = <<>> THEN <<>>
    ELSE (IF isBatch THEN HandleTransferBatch(Head(logs))
          ELSE HandleTransferSingle(Head(logs))) \o HandleAll(Tail(logs), isBatch)

\* querySlice of the ERC-1155 monitor: the enrichAndPersist calls of the slice,
\* single logs first, then batch logs.
QuerySliceItems(start, end) ==
    HandleAll(QueryFilter(SingleLogs, start, end), FALSE)
        \o HandleAll(QueryFilter(BatchLogs, start, end), TRUE)

RECURSIVE EggCalls(_)
EggCalls(logs) ==
    IF logs = <<>> THEN <<>>
    ELSE LET ev == Head(logs)
         IN << [from |-> ToLowerCase(ev.from), to |-> ToLowerCase(ev.to),
                tokenId |-> ev.tokenId, blockNumber |-> ev.blockNumber,
                transactionHash |-> ev.transactionHash] >> \o EggCalls(Tail(logs))

\* querySlice of egg_premium.js: every log of the filter is persisted.
QuerySliceEgg(start, end) == EggCalls(QueryFilterTo(TransferLogs, start, end))

QuerySlice(start, end) ==
    IF script = "items" THEN QuerySliceItems(start, end)
    ELSE QuerySliceEgg(start, end)

\* ------------------------------------------------------ checkpoint store
\* loadProgress(): d.lastProcessed || 0
LoadProgress == IF progress # 0 THEN progress ELSE 0

\* ------------------------------------------------------ range scheduler
\* Mutant: a sub-range of the backfill ends one height sooner.
BackfillEndExclusive(start, latest, chunk) == Min(latest, start + chunk - 1)

\* scanHistorical, line 221: const end = Math.min(latest, start + CHUNK)
BackfillEnd(start, latest, chunk) == Min(latest, start + chunk)

\* Mutant: the next sub-range starts on the end of the one before.
BackfillNextStartOverlap(start, chunk) == start + chunk

\* scanHistorical, line 220: start += CHUNK + 1
BackfillNextStart(start, chunk) == start + chunk + 1

\* Mutant: a sub-range of CHUNK heights instead of CHUNK + 1.
PollSliceEndShort(cursor, safeHead, chunk) ==
    Min(Max(cursor, cursor + chunk - 1), safeHead)

\* tick, line 244: const sliceEnd = Math.min(cursor + CHUNK, safeHead)
PollSliceEnd(cursor, safeHead, chunk) == Min(cursor + chunk, safeHead)

\* tick, line 246: cursor = sliceEnd + 1
PollNextCursor(sliceEnd) == sliceEnd + 1

\* Mutant: the confirmation depth is not subtracted.
SafeHeadNoLag(h) == h

\* tick, line 239: const safeHead = head - CONFIRMATIONS
SafeHead(h) == h - CONFIRMATIONS

\* The sub-ranges the loop of scanHistorical (lines 220-224) goes through
\* from start up to latest.
RECURSIVE BackfillRanges(_, _, _)
BackfillRanges(start, latest, chunk) ==
    IF start <= latest
    THEN << <<start, BackfillEnd(start, latest, chunk)>> >>
           \o BackfillRanges(BackfillNextStart(start, chunk), latest, chunk)
    ELSE <<>>

\* The sub-ranges the loop of tick (lines 242-247) goes through from cursor up
\* to safeHead.
RECURSIVE PollRanges(_, _, _)
PollRanges(cursor, safeHead, chunk) ==
    IF cursor <= safeHead
    THEN LET sliceEnd == PollSliceEnd(cursor, safeHead, chunk)
         IN << <<cursor, sliceEnd>> >>
              \o PollRanges(PollNextCursor(sliceEnd), safeHead, chunk)
    ELSE <<>>

\* -------------------------------------------------------------- threads
\* The locals of one execution: of the backfill loop (bf: head is latest,
\* cursor is start, sliceEnd is end, safeHead is the loop bound latest,
\* fromBlock the height the loop started from) or of
\* tick (an element of ticks).  cp0 is the checkpoint scanHistorical loaded.
\*   pc: "idle"    not running
\*       "head"    awaiting provider.getBlockNumber()
\*       "query"   awaiting contract.queryFilter over [cursor, sliceEnd]
\*       "enrich"  in enrichAndPersist of Head(pending), awaiting provider.getBlock
\*       "sliced"  querySlice resolved, the caller's continuation is due
IdleThread ==
    [pc |-> "idle", head |-> 0, safeHead |-> 0, cursor |-> 0, sliceEnd |-> 0,
     pending |-> <<>>, fromBlock |-> 0, cp0 |-> 0]

\* sched while the engine runs.
NoSched ==
    [loop |-> "none", start |-> 0, end |-> 0, maxSize |-> 0, cursor |-> 0,
     out |-> <<>>, pc |-> "done"]

\* A file as fs.readFileSync and JSON.parse see it.
\*   kind: "absent"       no such file (readFileSync throws)
\*         "unreadable"   readFileSync throws for another reason
\*         "unparseable"  JSON.parse throws (an empty or cut-off file too)
\*         "null"         the JSON text null
\*         "number"       a JSON number
\*         "object"       a JSON object without lastProcessed
\*         "checkpoint"   { "lastProcessed": n }
\*         "text"         { "lastProcessed": "abc" }
\*         "array"        a JSON array of rows
\*         "badArray"     a JSON array whose elements are not rows, as [1]
File(kind, n, rows) == [kind |-> kind, n |-> n, rows |-> rows]

\* loadJson(file, fallback): the parsed content, or the fallback when
\* readFileSync or JSON.parse throws.
LoadJson(file, fallback) ==
    IF file.kind \in {"absent", "unreadable", "unparseable"} THEN fallback
    ELSE file

\* loadProgress(): d.lastProcessed || 0.  Reading a property of null throws a
\* TypeError; of a number, an array or an object without the property it
\* gives undefined.
LoadProgressFile(file) ==
    LET d == LoadJson(file, File("checkpoint", 0, <<>>))
    IN IF d.kind = "null" THEN [kind |-> "TypeError", n |-> 0]
       ELSE IF d.kind = "checkpoint" /\ d.n # 0 THEN [kind |-> "number", n |-> d.n]
       ELSE IF d.kind = "text" THEN [kind |-> "string", n |-> 0]
       ELSE [kind |-> "number", n |-> 0]

\* loadDb()
LoadDbFile(file) == LoadJson(file, File("array", 0, <<>>))

\* What fs.writeFileSync leaves behind: the new content; the old content (the
\* open fails); or a file opened with O_TRUNC and not written to the end (the
\* write fails, or the process is killed).
WriteOutcomes == {"written", "untouched", "truncated"}

\* handler and store while the engine runs.
NoHandler ==
    [ev |-> [from |-> "", to |-> "", id |-> 0, value |-> 0, ids |-> <<>>,
             values |-> <<>>, blockNumber |-> 0, transactionHash |-> ""],
     isBatch |-> FALSE, pc |-> "off", calls |-> <<>>, db0 |-> <<>>]

NoStore ==
    [progressFile |-> File("absent", 0, <<>>), dbFile |-> File("absent", 0, <<>>),
     pc |-> "off", loaded |-> [kind |-> "number", n |-> 0], error |-> "none"]

\* startup while the engine runs.
NoStartup ==
    [watchWallet |-> "lowercase", contractAddress |-> "lowercase", pc |-> "off",
     chainCalls |-> 0]

\* checkUndercutNotifications while it is not running.
UndercutOff == [pc |-> "off", alert |-> <<>>, queue |-> <<>>, sent |-> {}]

\* checkListingSoldNotifications while it is not running.
SoldOff ==
    [pc |-> "off", selectedListings |-> <<>>, j |-> 0, alertModified |-> FALSE,
     invalidUser |-> FALSE, currentRemaining |-> 0, shouldRemoveListing |-> FALSE]

\* The table notification_alerts without a listing_alert row.
NoRow == [exists |-> FALSE, listing_ids |-> <<>>]

\* notif while the engine runs.
NoNotif == [row |-> NoRow, uc |-> UndercutOff, sold |-> SoldOff]

\* monitor while the engine runs: `let monitoringInterval = null`, no timer.
NoMonitor ==
    [monitoringInterval |-> 0, intervals |-> {}, timeouts |-> {}, handles |-> 0,
     ready |-> 0, cycles |-> 0, watched |-> 0]

\* tick is called: it runs up to its await of provider.getBlockNumber().
NewTick == [IdleThread EXCEPT !.pc = "head"]

\* The executions of tick in flight, as a set.
InFlight == BagToSet(ticks)

\* ticks with the execution r continued as r2, and with r finished.
Continue(r, r2) == (ticks (-) SetToBag({r})) (+) SetToBag({r2})
Finish(r) == ticks (-) SetToBag({r})

Init ==
    /\ script \in Scripts
    /\ CONFIRMATIONS \in ConfirmationsValues
    /\ CHUNK \in ChunkValues
    /\ INIT_LOOKBACK \in LookbackValues
    /\ FROM_BLOCK \in FromBlockValues
    /\ sched = NoSched
    /\ handler = NoHandler
    /\ store = NoStore
    /\ startup = NoStartup
    /\ notif = NoNotif
    /\ monitor = NoMonitor
    /\ head = 1
    /\ progress = 0
    /\ db = <<>>
    /\ mainPc = "boot"
    /\ lastProcessed = 0
    /\ bf = IdleThread
    /\ ticks = EmptyBag
    /\ restarts = 0
    /\ scanned = {}
    /\ origin = 0

\* Mutant: a configured FROM_BLOCK wins over a stored checkpoint.
FromBlockOverrideFirst(latest) ==
    IF FROM_BLOCK # NoFromBlock THEN FROM_BLOCK
    ELSE IF LoadProgress > 0 THEN Max(0, LoadProgress - CONFIRMATIONS)
    ELSE Max(0, latest - INIT_LOOKBACK)

\* Mutant: the resume height is moved forward, not back, by the confirmations.
FromBlockForward(latest) ==
    IF LoadProgress > 0 THEN LoadProgress + CONFIRMATIONS + 1
    ELSE IF FROM_BLOCK # NoFromBlock THEN FROM_BLOCK
    ELSE Max(0, latest - INIT_LOOKBACK)

\* scanHistorical, lines 201-212: the height the backfill starts from.
FromBlock(latest) ==
    IF LoadProgress > 0 THEN Max(0, LoadProgress - CONFIRMATIONS)
    ELSE IF FROM_BLOCK # NoFromBlock THEN FROM_BLOCK
    ELSE Max(0, latest - INIT_LOOKBACK)

\* Mutant: lastProcessed starts from the height scanHistorical returned,
\* whatever the progress file holds.
StartLivePollFromSeed(startFromBlock, cp) ==
    LET lp == Max(0, startFromBlock)
    IN /\ lastProcessed' = lp
       /\ ticks' = SetToBag({NewTick})
       /\ bf' = IdleThread
       /\ mainPc' = "firstTick"

\* startLivePoll(startFromBlock) up to the getBlockNumber call of the first
\* tick; cp is the checkpoint loadProgress() reads.
StartLivePoll(startFromBlock, cp) ==
    LET lp == Max(0, IF cp # 0 THEN cp ELSE startFromBlock)
    IN /\ lastProcessed' = lp
       /\ ticks' = SetToBag({NewTick})
       /\ bf' = IdleThread
       /\ mainPc' = "firstTick"

\* main + scanHistorical: getNetwork and getBlockNumber resolved; the start
\* height is computed and the first sub-range is queried (or, when the loop
\* runs no iteration, scanHistorical returns and startLivePoll begins).
Boot ==
    /\ mainPc = "boot"
    /\ LET latest == head
           fromBlock == FromBlock(latest)
       IN /\ origin' = IF LoadProgress > 0 THEN origin ELSE fromBlock
          /\ IF fromBlock <= latest
             THEN /\ bf' = [IdleThread EXCEPT !.pc = "query", !.head = latest,
                                              !.safeHead = latest,
                                              !.fromBlock = fromBlock,
                                              !.cursor = fromBlock,
                                              !.sliceEnd = BackfillEnd(fromBlock, latest, CHUNK),
                                              !.cp0 = progress]
                  /\ mainPc' = "backfill"
                  /\ UNCHANGED <<lastProcessed, ticks>>
             ELSE StartLivePoll(latest, LoadProgress)
    /\ UNCHANGED <<cfgVars, head, progress, db, restarts, scanned>>

\* Mutant: the timer is registered before the backfill has returned.
TimerFiresDuringBackfill ==
    /\ mainPc \in {"backfill", "live"}
    /\ BagCardinality(ticks) < MaxInFlight
    /\ ticks' = ticks (+) SetToBag({NewTick})
    /\ UNCHANGED <<cfgVars, head, progress, db, mainPc, lastProcessed, bf,
                   restarts, scanned, origin>>

\* The timer of setInterval(tick, POLL_INTERVAL_MS) fires, whether or not
\* earlier executions of tick have returned.
TimerFires ==
    /\ mainPc = "live"
    /\ BagCardinality(ticks) < MaxInFlight
    /\ ticks' = ticks (+) SetToBag({NewTick})
    /\ UNCHANGED <<cfgVars, head, progress, db, mainPc, lastProcessed, bf,
                   restarts, scanned, origin>>

\* The main function after `await tick()`: setInterval registers the timer.
AfterTick == IF mainPc = "firstTick" THEN "live" ELSE mainPc

\* Mutant: tick returns early only when safeHead is below lastProcessed.
GetBlockNumberReturnsStrict(r) ==
    /\ r.pc = "head"
    /\ LET safeHead == SafeHead(head)
           cursor == lastProcessed + 1
       IN IF safeHead < lastProcessed
          THEN /\ ticks' = Finish(r)
               /\ mainPc' = AfterTick
          ELSE /\ ticks' = Continue(r, [r EXCEPT !.pc = "query", !.head = head,
                                                 !.safeHead = safeHead,
                                                 !.cursor = cursor,
                                                 !.sliceEnd = PollSliceEnd(cursor, safeHead, CHUNK)])
               /\ UNCHANGED mainPc
    /\ UNCHANGED <<cfgVars, head, progress, db, lastProcessed, bf, restarts,
                   scanned, origin>>

\* tick, lines 238-246: the head is known; nothing to do, or the first
\* sub-range is queried.
GetBlockNumberReturns(r) ==
    /\ r.pc = "head"
    /\ LET safeHead == SafeHead(head)
           cursor == lastProcessed + 1
       IN IF safeHead <= lastProcessed
          THEN /\ ticks' = Finish(r)
               /\ mainPc' = AfterTick
          ELSE /\ ticks' = Continue(r, [r EXCEPT !.pc = "query", !.head = head,
                                                 !.safeHead = safeHead,
                                                 !.cursor = cursor,
                                                 !.sliceEnd = PollSliceEnd(cursor, safeHead, CHUNK)])
               /\ UNCHANGED mainPc
    /\ UNCHANGED <<cfgVars, head, progress, db, lastProcessed, bf, restarts,
                   scanned, origin>>

\* Mutant: querySlice does not await its handlers.
QueryFilterStepNoAwait(r) == [r EXCEPT !.pending = <<>>, !.pc = "sliced"]

\* querySlice: queryFilter resolved; the handlers run up to the first
\* enrichAndPersist, or querySlice resolves when no log matches.
QueryFilterStep(r) ==
    LET calls == QuerySlice(r.cursor, r.sliceEnd)
    IN [r EXCEPT !.pending = calls,
                 !.pc = IF calls = <<>> THEN "sliced" ELSE "enrich"]

\* enrichAndPersist returned: the handlers run on to the next
\* enrichAndPersist, or querySlice resolves.
GetBlockStep(r) ==
    [r EXCEPT !.pending = Tail(r.pending),
              !.pc = IF Tail(r.pending) = <<>> THEN "sliced" ELSE "enrich"]

BackfillQueryFilterReturns ==
    /\ bf.pc = "query"
    /\ bf' = QueryFilterStep(bf)
    /\ UNCHANGED <<cfgVars, head, progress, db, mainPc, lastProcessed, ticks,
                   restarts, scanned, origin>>

TickQueryFilterReturns(r) ==
    /\ r.pc = "query"
    /\ ticks' = Continue(r, QueryFilterStep(r))
    /\ UNCHANGED <<cfgVars, head, progress, db, mainPc, lastProcessed, bf,
                   restarts, scanned, origin>>

\* enrichAndPersist: provider.getBlock resolved; the row is stored, or found
\* to be a duplicate.
BackfillGetBlockReturns ==
    /\ bf.pc = "enrich"
    /\ db' = EnrichAndPersist(db, Head(bf.pending))
    /\ bf' = GetBlockStep(bf)
    /\ UNCHANGED <<cfgVars, head, progress, mainPc, lastProcessed, ticks,
                   restarts, scanned, origin>>

TickGetBlockReturns(r) ==
    /\ r.pc = "enrich"
    /\ db' = EnrichAndPersist(db, Head(r.pending))
    /\ ticks' = Continue(r, GetBlockStep(r))
    /\ UNCHANGED <<cfgVars, head, progress, mainPc, lastProcessed, bf,
                   restarts, scanned, origin>>

\* Mutant: the checkpoint saved is the start of the sub-range, not its end.
BackfillSliceDoneSavesStart ==
    /\ bf.pc = "sliced"
    /\ scanned' = scanned \cup (bf.cursor..bf.sliceEnd)
    /\ progress' = bf.cursor
    /\ LET start == BackfillNextStart(bf.cursor, CHUNK)
           latest == bf.head
       IN IF start <= latest
          THEN /\ bf' = [bf EXCEPT !.pc = "query", !.cursor = start,
                                   !.sliceEnd = BackfillEnd(start, latest, CHUNK)]
               /\ UNCHANGED <<mainPc, lastProcessed, ticks>>
          ELSE StartLivePoll(latest, bf.cursor)
    /\ UNCHANGED <<cfgVars, head, db, restarts, origin>>

\* scanHistorical, lines 222-226, after `await querySlice(start, end)`:
\* saveProgress(end), then the next sub-range or the return of latest.
BackfillSliceDone ==
    /\ bf.pc = "sliced"
    /\ scanned' = scanned \cup (bf.cursor..bf.sliceEnd)
    /\ progress' = bf.sliceEnd
    /\ LET start == BackfillNextStart(bf.cursor, CHUNK)
           latest == bf.head
       IN IF start <= latest
          THEN /\ bf' = [bf EXCEPT !.pc = "query", !.cursor = start,
                                   !.sliceEnd = BackfillEnd(start, latest, CHUNK)]
               /\ UNCHANGED <<mainPc, lastProcessed, ticks>>
          ELSE StartLivePoll(latest, bf.sliceEnd)
    /\ UNCHANGED <<cfgVars, head, db, restarts, origin>>

\* Mutant: tick saves the checkpoint after each of its sub-ranges.
TickSliceDoneSavesEachSlice(r) ==
    /\ r.pc = "sliced"
    /\ scanned' = scanned \cup (r.cursor..r.sliceEnd)
    /\ LET cursor == PollNextCursor(r.sliceEnd)
           safeHead == r.safeHead
       IN IF cursor <= safeHead
          THEN /\ ticks' = Continue(r, [r EXCEPT !.pc = "query", !.cursor = cursor,
                                                 !.sliceEnd = PollSliceEnd(cursor, safeHead, CHUNK)])
               /\ progress' = r.sliceEnd
               /\ UNCHANGED <<mainPc, lastProcessed>>
          ELSE /\ lastProcessed' = safeHead
               /\ progress' = safeHead
               /\ ticks' = Finish(r)
               /\ mainPc' = AfterTick
    /\ UNCHANGED <<cfgVars, head, db, bf, restarts, origin>>

\* tick, lines 245-250, after `await querySlice(cursor, sliceEnd)`: the next
\* sub-range, or lastProcessed = safeHead and saveProgress(lastProcessed).
TickSliceDone(r) ==
    /\ r.pc = "sliced"
    /\ scanned' = scanned \cup (r.cursor..r.sliceEnd)
    /\ LET cursor == PollNextCursor(r.sliceEnd)
           safeHead == r.safeHead
       IN IF cursor <= safeHead
          THEN /\ ticks' = Continue(r, [r EXCEPT !.pc = "query", !.cursor = cursor,
                                                 !.sliceEnd = PollSliceEnd(cursor, safeHead, CHUNK)])
               /\ UNCHANGED <<mainPc, lastProcessed, progress>>
          ELSE /\ lastProcessed' = safeHead
               /\ progress' = safeHead
               /\ ticks' = Finish(r)
               /\ mainPc' = AfterTick
    /\ UNCHANGED <<cfgVars, head, db, bf, restarts, origin>>

\* Mutant: the catch treats the failed sub-range as done and the tick's
\* target as reached.
TickErrorSkips(r) ==
    /\ r.pc \in {"head", "query", "enrich"}
    /\ ticks' = Finish(r)
    /\ mainPc' = AfterTick
    /\ lastProcessed' = IF r.pc = "head" THEN lastProcessed ELSE r.safeHead
    /\ progress' = IF r.pc = "head" THEN progress ELSE r.safeHead
    /\ UNCHANGED <<cfgVars, head, db, bf, restarts, scanned, origin>>

\* A promise awaited by tick rejects (getBlockNumber, queryFilter, getBlock)
\* or saveDb throws: the catch of tick logs it and tick returns.
TickError(r) ==
    /\ r.pc \in {"head", "query", "enrich"}
    /\ ticks' = Finish(r)
    /\ mainPc' = AfterTick
    /\ UNCHANGED <<cfgVars, head, progress, db, lastProcessed, bf, restarts,
                   scanned, origin>>

\* saveProgress throws in tick (fs.writeFileSync fails before the file is
\* replaced): line 249 has run, line 250 has not taken effect.
TickSaveError(r) ==
    /\ r.pc = "sliced"
    /\ PollNextCursor(r.sliceEnd) > r.safeHead
    /\ scanned' = scanned \cup (r.cursor..r.sliceEnd)
    /\ lastProcessed' = r.safeHead
    /\ ticks' = Finish(r)
    /\ mainPc' = AfterTick
    /\ UNCHANGED <<cfgVars, head, progress, db, bf, restarts, origin>>

\* Mutant: scanHistorical swallows the failure of a sub-range and returns
\* latest, so that main goes on to startLivePoll.
BackfillErrorSwallowed ==
    /\ mainPc = "backfill"
    /\ bf.pc \in {"query", "enrich", "sliced"}
    /\ StartLivePoll(bf.head, LoadProgress)
    /\ UNCHANGED <<cfgVars, head, progress, db, restarts, scanned, origin>>

\* A promise awaited by main or scanHistorical rejects, or saveDb or
\* saveProgress throws during the backfill: the rejection of the main
\* function is unhandled and the process ends.
BackfillError ==
    /\ \/ mainPc = "boot"
       \/ mainPc = "backfill" /\ bf.pc \in {"query", "enrich", "sliced"}
    /\ scanned' = IF bf.pc = "sliced"
                  THEN scanned \cup (bf.cursor..bf.sliceEnd)
                  ELSE scanned
    /\ bf' = IdleThread
    /\ mainPc' = "exited"
    /\ UNCHANGED <<cfgVars, head, progress, db, lastProcessed, ticks, restarts,
                   origin>>

\* Mutant: a cut-off progress file reads as the height after the saved one.
CrashedCheckpointAhead(outcome, old, new) ==
    CASE outcome = "untouched" -> old
      [] outcome = "truncated" -> new + 1
      [] outcome = "written" -> new

\* What loadProgress returns once the process was killed inside
\* saveProgress(new) over a file that held old: old, new, or what it returns
\* for a file that was opened with O_TRUNC and not written to its end.
CrashedCheckpoint(outcome, old, new) ==
    CASE outcome = "untouched" -> old
      [] outcome = "truncated" -> LoadProgressFile(File("unparseable", 0, <<>>)).n
      [] outcome = "written" -> new

\* The process is killed inside the saveProgress(end) of scanHistorical.
BackfillCrashInSave ==
    /\ mainPc = "backfill"
    /\ bf.pc = "sliced"
    /\ \E outcome \in WriteOutcomes :
          progress' = CrashedCheckpoint(outcome, progress, bf.sliceEnd)
    /\ scanned' = scanned \cup (bf.cursor..bf.sliceEnd)
    /\ mainPc' = "crashed"
    /\ lastProcessed' = 0
    /\ bf' = IdleThread
    /\ ticks' = EmptyBag
    /\ UNCHANGED <<cfgVars, head, db, restarts, origin>>

\* The process is killed inside the saveProgress(lastProcessed) of tick.
TickCrashInSave(r) ==
    /\ r.pc = "sliced"
    /\ PollNextCursor(r.sliceEnd) > r.safeHead
    /\ \E outcome \in WriteOutcomes :
          progress' = CrashedCheckpoint(outcome, progress, r.safeHead)
    /\ scanned' = scanned \cup (r.cursor..r.sliceEnd)
    /\ mainPc' = "crashed"
    /\ lastProcessed' = 0
    /\ bf' = IdleThread
    /\ ticks' = EmptyBag
    /\ UNCHANGED <<cfgVars, head, db, restarts, origin>>

\* The ledger grows by one block.
NewBlock ==
    /\ head < MaxHead
    /\ head' = head + 1
    /\ UNCHANGED <<cfgVars, progress, db, mainPc, lastProcessed, bf, ticks,
                   restarts, scanned, origin>>

\* The process is killed (or has ended) and is started again: the files stay,
\* everything in memory is lost.
Restart ==
    /\ restarts < MaxRestarts
    /\ restarts' = restarts + 1
    /\ mainPc' = "boot"
    /\ lastProcessed' = 0
    /\ bf' = IdleThread
    /\ ticks' = EmptyBag
    /\ UNCHANGED <<cfgVars, head, progress, db, scanned, origin>>

Next ==
    \/ Boot
    \/ TimerFires
    \/ \E r \in InFlight : GetBlockNumberReturns(r)
    \/ BackfillQueryFilterReturns
    \/ \E r \in InFlight : TickQueryFilterReturns(r)
    \/ BackfillGetBlockReturns
    \/ \E r \in InFlight : TickGetBlockReturns(r)
    \/ BackfillSliceDone
    \/ \E r \in InFlight : TickSliceDone(r)
    \/ \E r \in InFlight : TickError(r)
    \/ \E r \in InFlight : TickSaveError(r)
    \/ BackfillError
    \/ BackfillCrashInSave
    \/ \E r \in InFlight : TickCrashInSave(r)
    \/ NewBlock
    \/ Restart

Spec == Init /\ [][Next]_vars

\* ------------------------------------------------- a run that is never ended
\* The process is neither killed nor ended by a rejection in main: the
\* backfill goes through, then the timer fires for ever. A step of a tick may
\* fail (TickError, TickSaveError) any number of times.
NextLive ==
    \/ Boot
    \/ TimerFires
    \/ \E r \in InFlight : GetBlockNumberReturns(r)
    \/ BackfillQueryFilterReturns
    \/ \E r \in InFlight : TickQueryFilterReturns(r)
    \/ BackfillGetBlockReturns
    \/ \E r \in InFlight : TickGetBlockReturns(r)
    \/ BackfillSliceDone
    \/ \E r \in InFlight : TickSliceDone(r)
    \/ \E r \in InFlight : TickError(r)
    \/ \E r \in InFlight : TickSaveError(r)
    \/ NewBlock

\* The heights a sub-range of a tick can start at.
Cursors == 1..MaxHead

\* What the event loop and the premise of transient failures give: main and
\* the backfill run on, the timer of setInterval keeps firing (line 257), and
\* each step of tick, tried again and again at the same place, succeeds in
\* the end. Nothing makes the chain produce another block.
FairLive ==
    /\ WF_vars(Boot)
    /\ WF_vars(BackfillQueryFilterReturns)
    /\ WF_vars(BackfillGetBlockReturns)
    /\ WF_vars(BackfillSliceDone)
    /\ WF_vars(TimerFires)
    /\ SF_vars(\E r \in InFlight : GetBlockNumberReturns(r))
    /\ \A c \in Cursors :
          /\ SF_vars(\E r \in InFlight : r.cursor = c /\ TickQueryFilterReturns(r))
          /\ SF_vars(\E r \in InFlight : r.cursor = c /\ TickGetBlockReturns(r))
          /\ SF_vars(\E r \in InFlight : r.cursor = c /\ TickSliceDone(r))

SpecLive == Init /\ [][NextLive]_vars /\ FairLive

\* ------------------------------------------------ the hand-over on its own
\* scanHistorical and the first lines of startLivePoll, started over any
\* checkpoint an earlier run (or another node) left in the progress file and
\* any head, that checkpoint being above the head or not.
InitHandOver ==
    /\ script \in Scripts
    /\ CONFIRMATIONS \in ConfirmationsValues
    /\ CHUNK \in ChunkValues
    /\ INIT_LOOKBACK \in LookbackValues
    /\ FROM_BLOCK \in FromBlockValues
    /\ sched = NoSched
    /\ handler = NoHandler
    /\ store = NoStore
    /\ startup = NoStartup
    /\ notif = NoNotif
    /\ monitor = NoMonitor
    /\ head \in 0..MaxHead
    /\ progress \in 0..MaxStored
    /\ db = <<>>
    /\ mainPc = "boot"
    /\ lastProcessed = 0
    /\ bf = IdleThread
    /\ ticks = EmptyBag
    /\ restarts = 0
    /\ scanned = {}
    /\ origin = 0

NextHandOver ==
    \/ Boot
    \/ BackfillQueryFilterReturns
    \/ BackfillGetBlockReturns
    \/ BackfillSliceDone
    \/ NewBlock

SpecHandOver == InitHandOver /\ [][NextHandOver]_vars

\* ------------------------------------------- range scheduling on its own
\* The two loops that cut [start, end] into sub-ranges, run on inputs of
\* their own: the loop of scanHistorical (lines 220-224) and the loop of tick
\* (lines 242-247), each without its querySlice call.
engineVars == <<script, CONFIRMATIONS, CHUNK, INIT_LOOKBACK, FROM_BLOCK, handler,
                store, startup, notif, monitor, head, progress, db, mainPc, lastProcessed, bf, ticks,
                restarts, scanned, origin>>

SchedInputs ==
    {[loop |-> l, start |-> a, end |-> b, maxSize |-> m] :
        l \in {"backfill", "poll"}, a \in 0..MaxStart, b \in 0..MaxEnd,
        m \in 0..MaxChunk}
    \cup {[loop |-> l, start |-> 0, end |-> 250, maxSize |-> 100] :
        l \in {"backfill", "poll"}}

InitChunk ==
    /\ script = "items"
    /\ CONFIRMATIONS = 0
    /\ CHUNK = 0
    /\ INIT_LOOKBACK = 1
    /\ FROM_BLOCK = NoFromBlock
    /\ handler = NoHandler
    /\ store = NoStore
    /\ startup = NoStartup
    /\ notif = NoNotif
    /\ monitor = NoMonitor
    /\ head = 1
    /\ progress = 0
    /\ db = <<>>
    /\ mainPc = "exited"
    /\ lastProcessed = 0
    /\ bf = IdleThread
    /\ ticks = EmptyBag
    /\ restarts = 0
    /\ scanned = {}
    /\ origin = 0
    /\ \E i \in SchedInputs :
          sched = [loop |-> i.loop, start |-> i.start, end |-> i.end,
                   maxSize |-> i.maxSize, cursor |-> i.start, out |-> <<>>,
                   pc |-> "loop"]

\* One iteration of the loop of scanHistorical.
ScheduleBackfill ==
    /\ sched.loop = "backfill"
    /\ sched.pc = "loop"
    /\ sched.cursor <= sched.end
    /\ sched' = [sched EXCEPT
          !.out = Append(sched.out,
                         <<sched.cursor,
                           BackfillEnd(sched.cursor, sched.end, sched.maxSize)>>),
          !.cursor = BackfillNextStart(sched.cursor, sched.maxSize)]
    /\ UNCHANGED engineVars

\* One iteration of the loop of tick.
SchedulePoll ==
    /\ sched.loop = "poll"
    /\ sched.pc = "loop"
    /\ sched.cursor <= sched.end
    /\ LET sliceEnd == PollSliceEnd(sched.cursor, sched.end, sched.maxSize)
       IN sched' = [sched EXCEPT !.out = Append(sched.out, <<sched.cursor, sliceEnd>>),
                                 !.cursor = PollNextCursor(sliceEnd)]
    /\ UNCHANGED engineVars

\* Mutant: the loop does not end when its condition fails.
ScheduleExitNot ==
    /\ sched.pc = "loop"
    /\ sched.cursor > sched.end
    /\ sched' = [sched EXCEPT !.pc = "loop"]
    /\ UNCHANGED engineVars

\* The loop condition fails.
ScheduleExit ==
    /\ sched.pc = "loop"
    /\ sched.cursor > sched.end
    /\ sched' = [sched EXCEPT !.pc = "done"]
    /\ UNCHANGED engineVars

NextChunk == ScheduleBackfill \/ SchedulePoll \/ ScheduleExit

SpecChunk == InitChunk /\ [][NextChunk]_vars

\* The loops keep running: every chain call of an iteration returns.
SpecChunkFair == SpecChunk /\ WF_vars(NextChunk)

\* --------------------------------------------------- handlers on their own
\* handleTransferSingle and handleTransferBatch of the ERC-1155 monitor, and
\* the enrichAndPersist call they make, run on one event of any receiver,
\* identifiers and amounts, over an empty store or a store with one row.
EventReceivers == {"0xWallet", "0xWALLET", "0xOther"}
EventIds == {0, 5, 74, 999}
EventValues == {0, 3, 7}

SingleEvents ==
    {[from |-> "0xSender", to |-> t, id |-> i, value |-> v, ids |-> <<>>,
      values |-> <<>>, blockNumber |-> 2, transactionHash |-> "0xf2"] :
        t \in EventReceivers, i \in EventIds, v \in EventValues}

BatchEvents ==
    UNION {{[from |-> "0xSender", to |-> t, id |-> 0, value |-> 0, ids |-> is,
             values |-> vs, blockNumber |-> 2, transactionHash |-> "0xf2"] :
               t \in EventReceivers, is \in [1..n -> EventIds],
               vs \in [1..n -> EventValues]} : n \in 0..MaxBatch}

\* The stores the handlers start from: none, and one row of another
\* transaction at a lower height.
StoresBefore ==
    {<<>>,
     <<[receivedTo |-> WATCH_WALLET, sender |-> "0xsender", tokenIds |-> <<4>>,
        amounts |-> <<1>>, totalAmount |-> 1, blockNumber |-> 1,
        txHash |-> "0xa1"]>>}

\* The engine at rest, for the specifications of a part on its own.
EngineAtRest ==
    /\ script = "items"
    /\ CONFIRMATIONS = 0
    /\ CHUNK = 0
    /\ INIT_LOOKBACK = 1
    /\ FROM_BLOCK = NoFromBlock
    /\ sched = NoSched
    /\ head = 1
    /\ progress = 0
    /\ mainPc = "exited"
    /\ lastProcessed = 0
    /\ bf = IdleThread
    /\ ticks = EmptyBag
    /\ restarts = 0
    /\ scanned = {}
    /\ origin = 0

atRestVarsNoNotif == <<script, CONFIRMATIONS, CHUNK, INIT_LOOKBACK, FROM_BLOCK, sched,
                       head, progress, mainPc, lastProcessed, bf, ticks, restarts,
                       scanned, origin>>

atRestVars == <<script, CONFIRMATIONS, CHUNK, INIT_LOOKBACK, FROM_BLOCK, sched,
                head, progress, mainPc, lastProcessed, bf, ticks, restarts,
                scanned, origin, notif, monitor>>

InitFilter ==
    /\ EngineAtRest
    /\ store = NoStore
    /\ startup = NoStartup
    /\ notif = NoNotif
    /\ monitor = NoMonitor
    /\ db \in StoresBefore
    /\ \E b \in BOOLEAN :
          \E e \in (IF b THEN BatchEvents ELSE SingleEvents) :
              handler = [ev |-> e, isBatch |-> b, pc |-> "call",
                         calls |-> <<>>, db0 |-> db]

\* querySlice, lines 189-195: the handler of the event runs up to its await
\* of enrichAndPersist, or returns without one.
HandlerCalled ==
    /\ handler.pc = "call"
    /\ LET calls == IF handler.isBatch THEN HandleTransferBatch(handler.ev)
                    ELSE HandleTransferSingle(handler.ev)
       IN handler' = [handler EXCEPT !.calls = calls,
                                     !.pc = IF calls = <<>> THEN "done"
                                            ELSE "enrich"]
    /\ UNCHANGED <<atRestVars, store, startup, db>>

\* enrichAndPersist: provider.getBlock resolved; the row is stored.
HandlerGetBlockReturns ==
    /\ handler.pc = "enrich"
    /\ db' = EnrichAndPersistItems(db, Head(handler.calls))
    /\ handler' = [handler EXCEPT !.pc = "done"]
    /\ UNCHANGED <<atRestVars, store, startup>>

NextFilter == HandlerCalled \/ HandlerGetBlockReturns

SpecFilter == InitFilter /\ [][NextFilter]_vars

\* ------------------------------------------------------ files on their own
\* loadJson, loadProgress, loadDb and the load-push-sort-save of
\* enrichAndPersist, run on files of any content, with writes that can fail.

\* What PROGRESS_PATH can hold when the process starts.
ProgressFiles ==
    {File(k, 0, <<>>) : k \in {"absent", "unreadable", "unparseable", "null",
                               "number", "object", "text", "array"}}
    \cup {File("checkpoint", n, <<>>) : n \in 0..MaxStored}

\* What OUT_PATH can hold when the process starts.
DbFiles ==
    {File(k, 0, <<>>) : k \in {"absent", "unreadable", "unparseable", "null",
                               "number", "object", "badArray", "array"}}

\* The enrichAndPersist calls of the ERC-1155 monitor over the whole ledger.
StorageCalls ==
    LET calls == QuerySliceItems(0, MaxHead)
    IN {calls[i] : i \in 1..Len(calls)}

InitStorage ==
    /\ EngineAtRest
    /\ handler = NoHandler
    /\ startup = NoStartup
    /\ notif = NoNotif
    /\ monitor = NoMonitor
    /\ db = <<>>
    /\ \E pf \in ProgressFiles, df \in DbFiles :
          store = [progressFile |-> pf, dbFile |-> df, pc |-> "start",
                   loaded |-> [kind |-> "number", n |-> 0], error |-> "none"]

\* scanHistorical, line 201: const progress = loadProgress()
StorageLoadProgress ==
    /\ store.pc = "start"
    /\ LET r == LoadProgressFile(store.progressFile)
       IN store' = [store EXCEPT
                       !.loaded = r,
                       !.pc = IF r.kind = "TypeError" THEN "thrown" ELSE "run",
                       !.error = IF r.kind = "TypeError" THEN "TypeError"
                                 ELSE "none"]
    /\ UNCHANGED <<atRestVars, handler, startup, db>>

\* enrichAndPersist, lines 114-125: loadDb, findIndex, and for a new
\* transaction push, sort and saveDb.  findIndex throws a TypeError on what
\* is not an array, and its callback on an element without txHash.
StorageAppend ==
    /\ store.pc = "run"
    /\ \E call \in StorageCalls, outcome \in WriteOutcomes :
          LET d == LoadDbFile(store.dbFile)
              rows == EnrichAndPersistItems(d.rows, call)
          IN IF d.kind # "array"
             THEN store' = [store EXCEPT !.pc = "thrown", !.error = "TypeError"]
             ELSE /\ rows # d.rows
                  /\ store' =
                       CASE outcome = "written" ->
                              [store EXCEPT !.dbFile = File("array", 0, rows)]
                         [] outcome = "untouched" ->
                              [store EXCEPT !.pc = "thrown", !.error = "WriteError"]
                         [] outcome = "truncated" ->
                              [store EXCEPT !.dbFile = File("unparseable", 0, <<>>),
                                            !.pc = "thrown", !.error = "WriteError"]
    /\ UNCHANGED <<atRestVars, handler, startup, db>>

\* tick, lines 251-253: the catch logs the error; later ticks go on.
StorageCaught ==
    /\ store.pc = "thrown"
    /\ store.error # "none"
    /\ store.loaded.kind # "TypeError"
    /\ store' = [store EXCEPT !.pc = "run", !.error = "none"]
    /\ UNCHANGED <<atRestVars, handler, startup, db>>

\* The process has ended, or was killed, and is started again.
StorageRestart ==
    /\ store.pc = "thrown"
    /\ store' = [store EXCEPT !.pc = "start", !.error = "none",
                              !.loaded = [kind |-> "number", n |-> 0]]
    /\ UNCHANGED <<atRestVars, handler, startup, db>>

NextStorage ==
    \/ StorageLoadProgress
    \/ StorageAppend
    \/ StorageCaught
    \/ StorageRestart

SpecStorage == InitStorage /\ [][NextStorage]_vars

\* ------------------------------------------- the start of the script on its own
\* The top level of the script, lines 13-50 (egg_premium.js 11-22), and the
\* first awaits of main, run on any WATCH_WALLET and contract address of the
\* environment.  An address is told by its kind:
\*   "missing"      the variable is not set
\*   "malformed"    not 0x and 40 hex digits
\*   "lowercase"    40 hex digits, letters in lower case
\*   "checksummed"  40 hex digits, letters in the case of their checksum
\*   "badChecksum"  40 hex digits in mixed case that is not their checksum
\*   "padded"       a well-formed address with blanks around it
\*   "empty"        the empty string
\*   "TypeError"    evaluating the expression threw
AddressKinds ==
    {"missing", "malformed", "lowercase", "checksummed", "badChecksum", "padded"}

\* ethers.isAddress(value)
IsAddress(a) == a \in {"lowercase", "checksummed"}

\* (process.env.WATCH_WALLET || "").toLowerCase()
WatchWalletOf(env) ==
    CASE env = "missing" -> "empty"
      [] env \in {"lowercase", "checksummed", "badChecksum"} -> "lowercase"
      [] OTHER -> env

\* Mutant: the built-in default is not used for a missing contract address.
ContractAddressNoDefault(env) ==
    CASE env = "missing" -> "TypeError"
      [] env = "padded" -> "checksummed"
      [] OTHER -> env

\* The ERC-1155 monitor, lines 15-17:
\* (process.env.CONTRACT_ADDRESS_ITEMS || "0x50A5...75b1").trim()
ContractAddressItems(env) ==
    CASE env = "missing" -> "checksummed"
      [] env = "padded" -> "checksummed"
      [] OTHER -> env

\* egg_premium.js, line 12: (process.env.CONTRACT_ADDRESS).trim()
ContractAddressEgg(env) ==
    CASE env = "missing" -> "TypeError"
      [] env = "padded" -> "checksummed"
      [] OTHER -> env

ContractAddressOf(env) ==
    IF script = "items" THEN ContractAddressItems(env) ELSE ContractAddressEgg(env)

startupFrame == <<CONFIRMATIONS, CHUNK, INIT_LOOKBACK, FROM_BLOCK, sched, handler,
                  store, head, progress, db, mainPc, lastProcessed, bf, ticks,
                  restarts, scanned, origin, notif, monitor>>

InitStartup ==
    /\ script \in Scripts
    /\ CONFIRMATIONS = 0
    /\ CHUNK = 0
    /\ INIT_LOOKBACK = 1
    /\ FROM_BLOCK = NoFromBlock
    /\ sched = NoSched
    /\ handler = NoHandler
    /\ store = NoStore
    /\ head = 1
    /\ progress = 0
    /\ db = <<>>
    /\ mainPc = "exited"
    /\ lastProcessed = 0
    /\ bf = IdleThread
    /\ ticks = EmptyBag
    /\ restarts = 0
    /\ scanned = {}
    /\ origin = 0
    /\ notif = NoNotif
    /\ monitor = NoMonitor
    /\ \E w \in AddressKinds, c \in AddressKinds :
          startup = [watchWallet |-> w, contractAddress |-> c, pc |-> "load",
                     chainCalls |-> 0]

\* The top level of the script runs: the configuration is read and checked,
\* the provider and the contract are made, main is called and awaits
\* provider.getNetwork().
ScriptLoads ==
    /\ startup.pc = "load"
    /\ LET watch == WatchWalletOf(startup.watchWallet)
           contract == ContractAddressOf(startup.contractAddress)
       IN startup' =
            IF contract = "TypeError" \/ ~IsAddress(watch) \/ ~IsAddress(contract)
            THEN [startup EXCEPT !.pc = "failed"]
            ELSE [startup EXCEPT !.pc = "getNetwork", !.chainCalls = 1]
    /\ UNCHANGED <<script, startupFrame>>

\* main, lines 263-269: getNetwork resolved; scanHistorical is called and
\* awaits provider.getBlockNumber().
GetNetworkReturns ==
    /\ startup.pc = "getNetwork"
    /\ startup' = [startup EXCEPT !.pc = "getBlockNumber", !.chainCalls = 2]
    /\ UNCHANGED <<script, startupFrame>>

\* scanHistorical, line 199: getBlockNumber resolved; the backfill begins.
StartupDone ==
    /\ startup.pc = "getBlockNumber"
    /\ startup' = [startup EXCEPT !.pc = "backfill"]
    /\ UNCHANGED <<script, startupFrame>>

\* getNetwork or getBlockNumber rejects: main rejects and the process ends.
StartupRejected ==
    /\ startup.pc \in {"getNetwork", "getBlockNumber"}
    /\ startup' = [startup EXCEPT !.pc = "rejected"]
    /\ UNCHANGED <<script, startupFrame>>

NextStartup ==
    \/ ScriptLoads
    \/ GetNetworkReturns
    \/ StartupDone
    \/ StartupRejected

SpecStartup == InitStartup /\ [][NextStartup]_vars

\* ------------------------------------------------ the alert checks on their own
\* checkUndercutNotifications and checkListingSoldNotifications of
\* egg_premium.js (alert_amount.js holds the same functions), run over one
\* listing_alert row of the table notification_alerts. Every call of the
\* table succeeds; what the order book, the subgraph and sendNotification
\* answer is an input of the step that awaits them.
MaxListings == 2
MaxAmount == 1

\* notification_types of a listing that asks for undercut notifications.
TypeSets == {{"undercut"}, {"undercut", "sold_out"}, {"undercut", "all_trade"}}

\* A listing as the alert is created with: active, nothing sold yet,
\* last_remaining_amount not set (0 and absent are both falsy).
NewListing(id, types) ==
    [id |-> id, notification_types |-> types, status |-> "active",
     amount |-> MaxAmount, last_remaining_amount |-> 0]

\* The listing_ids an alert can hold at first.
ListingIdsValues ==
    UNION {{[i \in 1..n |-> NewListing(i, t[i])] : t \in [1..n -> TypeSets]} :
           n \in 1..MaxListings}

\* supabase.from('notification_alerts').delete().eq('id', alert.id)
Delete(row) == NoRow

\* supabase.from('notification_alerts').update({listing_ids}).eq('id', alert.id):
\* no row is changed when the alert has been deleted.
Update(row, listings) ==
    IF row.exists THEN [row EXCEPT !.listing_ids = listings] ELSE row

\* The part of the engine that is not running while the checks are looked at.
NotifAtRest ==
    /\ script = "egg"
    /\ CONFIRMATIONS = 0
    /\ CHUNK = 0
    /\ INIT_LOOKBACK = 1
    /\ FROM_BLOCK = NoFromBlock
    /\ sched = NoSched
    /\ handler = NoHandler
    /\ store = NoStore
    /\ startup = NoStartup
    /\ head = 1
    /\ progress = 0
    /\ db = <<>>
    /\ mainPc = "exited"
    /\ lastProcessed = 0
    /\ bf = IdleThread
    /\ ticks = EmptyBag
    /\ restarts = 0
    /\ scanned = {}
    /\ origin = 0

notifFrame == <<atRestVarsNoNotif, handler, store, startup, db, monitor>>

\* checkUndercutNotifications is called: it runs up to its await of the select.
UndercutCalled == [UndercutOff EXCEPT !.pc = "select"]

\* checkListingSoldNotifications is called: it runs up to its await of the select.
SoldCalled == [SoldOff EXCEPT !.pc = "select"]

\* The listings checkUndercutNotifications puts into alertsByItem: those with
\* the type 'undercut' and the status 'active'.
HasUndercutType(listing) ==
    "undercut" \in listing.notification_types \/ "undercut_detailed" \in listing.notification_types

UndercutCandidates(listings) ==
    SelectSeq(listings, LAMBDA l : HasUndercutType(l) /\ l.status = "active")

\* The loop over the grouped listings goes on to its next listing, or ends.
UndercutNextListing(uc) ==
    [uc EXCEPT !.queue = Tail(uc.queue),
               !.pc = IF Tail(uc.queue) = <<>> THEN "done" ELSE "orderbook"]

\* The select of checkUndercutNotifications resolved: the rows are grouped.
UndercutSelectReturns ==
    /\ notif.uc.pc = "select"
    /\ LET listings == IF notif.row.exists THEN notif.row.listing_ids ELSE <<>>
           queue == UndercutCandidates(listings)
       IN notif' = [notif EXCEPT !.uc = [pc |-> IF queue = <<>> THEN "done" ELSE "orderbook",
                                         alert |-> listings,
                                         queue |-> queue,
                                         sent |-> {}]]
    /\ UNCHANGED notifFrame

\* The order book is known: the listing is undercut (sendNotification is
\* awaited) or it is not (the loop goes on).
UndercutOrderbook(undercut) ==
    /\ notif.uc.pc = "orderbook"
    /\ notif' = [notif EXCEPT !.uc = IF undercut THEN [notif.uc EXCEPT !.pc = "notify"]
                                     ELSE UndercutNextListing(notif.uc)]
    /\ UNCHANGED notifFrame

\* sendNotification (and logTriggeredAlert) resolved: when the notification
\* was sent the table is updated next.
UndercutSendNotificationReturns(sent) ==
    /\ notif.uc.pc = "notify"
    /\ notif' = [notif EXCEPT !.uc =
                    IF sent
                    THEN [notif.uc EXCEPT !.pc = "update",
                                          !.sent = @ \cup {Head(notif.uc.queue).id}]
                    ELSE UndercutNextListing(notif.uc)]
    /\ UNCHANGED notifFrame

\* shouldRemoveFromDB: the listing asks for no sold_out and no all_trade
\* notification.
ShouldRemoveFromDB(listing) ==
    LET types == listing.notification_types
        hasSoldOut == "sold_out" \in types
        hasAllTrades == "all_trade" \in types \/ "both" \in types
    IN ~hasSoldOut /\ ~hasAllTrades

\* updatedListings, computed from alert.listing_ids as the select returned it.
UndercutUpdatedListings(listing_ids, listing) ==
    IF ShouldRemoveFromDB(listing)
    THEN SelectSeq(listing_ids, LAMBDA l : l.id # listing.id)
    ELSE [i \in 1..Len(listing_ids) |->
             IF listing_ids[i].id = listing.id
             THEN [listing_ids[i] EXCEPT !.status = "undercut_sent"]
             ELSE listing_ids[i]]

\* The table is written for the notified listing: the alert is deleted when
\* no listing is left, updated otherwise.
UndercutUpdate ==
    /\ notif.uc.pc = "update"
    /\ LET listing == Head(notif.uc.queue)
           updatedListings == UndercutUpdatedListings(notif.uc.alert, listing)
       IN notif' = [notif EXCEPT
                       !.row = IF updatedListings = <<>> THEN Delete(notif.row)
                               ELSE Update(notif.row, updatedListings),
                       !.uc = UndercutNextListing(notif.uc)]
    /\ UNCHANGED notifFrame

InitUndercut ==
    /\ NotifAtRest
    /\ monitor = NoMonitor
    /\ \E l \in ListingIdsValues :
          notif = [row |-> [exists |-> TRUE, listing_ids |-> l],
                   uc |-> UndercutCalled, sold |-> SoldOff]

NextUndercut ==
    \/ UndercutSelectReturns
    \/ \E undercut \in BOOLEAN : UndercutOrderbook(undercut)
    \/ \E sent \in BOOLEAN : UndercutSendNotificationReturns(sent)
    \/ UndercutUpdate

SpecUndercut == InitUndercut /\ [][NextUndercut]_vars

\* What querySubgraph can answer for a listing: it is unknown, it was
\* cancelled by its owner, the call failed, or its amountRemaining.
SubgraphAnswers ==
    {[kind |-> k, amountRemaining |-> 0] : k \in {"gone", "cancelled", "error"}}
    \cup {[kind |-> "listing", amountRemaining |-> n] : n \in 0..MaxAmount}

\* The loop over selectedListings (from the last to the first) goes on.
SoldNextListing(sold) ==
    [sold EXCEPT !.j = sold.j - 1,
                 !.pc = IF sold.j - 1 >= 1 THEN "query" ELSE "update"]

\* The end of the loop body: last_remaining_amount is set unless the listing
\* was cancelled, and the listing is marked completed when it is to be removed.
SoldRecord(sold, wasCanceledByOwner) ==
    LET l == sold.selectedListings[sold.j]
        l1 == IF wasCanceledByOwner THEN l
              ELSE [l EXCEPT !.last_remaining_amount = sold.currentRemaining]
        l2 == IF sold.shouldRemoveListing THEN [l1 EXCEPT !.status = "completed"] ELSE l1
    IN [sold EXCEPT !.selectedListings[sold.j] = l2, !.alertModified = TRUE]

\* The select of checkListingSoldNotifications resolved: the copy of
\* listing_ids is made and the last listing is asked for.
SoldSelectReturns ==
    /\ notif.sold.pc = "select"
    /\ notif' = [notif EXCEPT !.sold =
                    IF notif.row.exists /\ notif.row.listing_ids # <<>>
                    THEN [SoldOff EXCEPT !.pc = "query",
                                         !.selectedListings = notif.row.listing_ids,
                                         !.j = Len(notif.row.listing_ids)]
                    ELSE [SoldOff EXCEPT !.pc = IF notif.row.exists THEN "update" ELSE "done"]]
    /\ UNCHANGED notifFrame

\* querySubgraph resolved (or rejected) for selectedListings[j].
SoldQuerySubgraphReturns(answer) ==
    /\ notif.sold.pc = "query"
    /\ LET sold == notif.sold
           l == sold.selectedListings[sold.j]
       IN notif' = [notif EXCEPT !.sold =
            CASE answer.kind = "error" -> SoldNextListing(sold)
              [] answer.kind = "gone" ->
                   SoldNextListing([sold EXCEPT
                       !.selectedListings =
                           SubSeq(sold.selectedListings, 1, sold.j - 1) \o
                           SubSeq(sold.selectedListings, sold.j + 1, Len(sold.selectedListings)),
                       !.alertModified = TRUE])
              [] answer.kind = "cancelled" ->
                   SoldNextListing(SoldRecord([sold EXCEPT !.shouldRemoveListing = TRUE], TRUE))
              [] OTHER ->
                   LET currentRemaining == answer.amountRemaining
                       isFullySold == currentRemaining = 0
                       lastKnownRemaining ==
                           IF l.last_remaining_amount # 0 THEN l.last_remaining_amount
                           ELSE l.amount
                       amountSoldSinceLastCheck == lastKnownRemaining - currentRemaining
                       types == l.notification_types
                       allTrade == ("all_trade" \in types \/ "both" \in types)
                                   /\ amountSoldSinceLastCheck > 0
                       soldOut == ("sold_out" \in types \/ "both" \in types) /\ isFullySold
                       shouldNotify == allTrade \/ soldOut
                       shouldRemoveListing == (allTrade /\ isFullySold) \/ soldOut
                       next == [sold EXCEPT !.currentRemaining = currentRemaining,
                                            !.shouldRemoveListing = shouldRemoveListing]
                   IN IF shouldNotify THEN [next EXCEPT !.pc = "notify"]
                      ELSE SoldNextListing(SoldRecord(next, FALSE))]
    /\ UNCHANGED notifFrame

\* sendNotification (and logTriggeredAlert) resolved in the sold check: a
\* notification that was not sent ends the loop over the listings.
SoldSendNotificationReturns(sent) ==
    /\ notif.sold.pc = "notify"
    /\ notif' = [notif EXCEPT !.sold =
                    IF sent THEN SoldNextListing(SoldRecord(notif.sold, FALSE))
                    ELSE [notif.sold EXCEPT !.invalidUser = TRUE, !.pc = "update"]]
    /\ UNCHANGED notifFrame

\* activeListings: the copy without the completed listings.
ActiveListings(selectedListings) ==
    SelectSeq(selectedListings, LAMBDA l : l.status # "completed")

\* "Update database once after processing all listings".
SoldUpdate ==
    /\ notif.sold.pc = "update"
    /\ LET sold == notif.sold
           activeListings == ActiveListings(sold.selectedListings)
       IN notif' = [notif EXCEPT
                       !.row = IF sold.invalidUser THEN Delete(notif.row)
                               ELSE IF sold.alertModified
                               THEN IF activeListings = <<>> THEN Delete(notif.row)
                                    ELSE Update(notif.row, activeListings)
                               ELSE notif.row,
                       !.sold = [sold EXCEPT !.pc = "done"]]
    /\ UNCHANGED notifFrame

\* runMonitoringCycle: Promise.allSettled starts the checks one after the
\* other, each running up to its first await.
RunMonitoringCycle ==
    /\ notif.uc.pc = "off"
    /\ notif.sold.pc = "off"
    /\ notif' = [notif EXCEPT !.uc = UndercutCalled, !.sold = SoldCalled]
    /\ UNCHANGED notifFrame

InitCycle ==
    /\ NotifAtRest
    /\ monitor = NoMonitor
    /\ \E l \in ListingIdsValues :
          notif = [row |-> [exists |-> TRUE, listing_ids |-> l],
                   uc |-> UndercutOff, sold |-> SoldOff]

NextCycle ==
    \/ RunMonitoringCycle
    \/ UndercutSelectReturns
    \/ \E undercut \in BOOLEAN : UndercutOrderbook(undercut)
    \/ \E sent \in BOOLEAN : UndercutSendNotificationReturns(sent)
    \/ UndercutUpdate
    \/ SoldSelectReturns
    \/ \E answer \in SubgraphAnswers : SoldQuerySubgraphReturns(answer)
    \/ \E sent \in BOOLEAN : SoldSendNotificationReturns(sent)
    \/ SoldUpdate

SpecCycle == InitCycle /\ [][NextCycle]_vars

\* ------------------------------------------ the monitoring timers on their own
\* startNotificationMonitoring, called by every 'ready' event of the Discord
\* client, and the timers it sets. A timer handle is a number above 0.
MaxReady == 4
MaxCycles == 2

\* Mutant: the interval registered before is left running.
StartNotificationMonitoringNoClear(m) ==
    [m EXCEPT !.timeouts = @ \cup {m.handles + 1},
              !.intervals = @ \cup {m.handles + 2},
              !.monitoringInterval = m.handles + 2,
              !.handles = @ + 2]

\* startNotificationMonitoring: clearInterval of the handle held, if any; a
\* setTimeout of 5 s for the first cycle; setInterval, its handle kept in
\* monitoringInterval.
StartNotificationMonitoring(m) ==
    LET cleared == IF m.monitoringInterval # 0
                   THEN m.intervals \ {m.monitoringInterval}
                   ELSE m.intervals
    IN [m EXCEPT !.timeouts = @ \cup {m.handles + 1},
                 !.intervals = cleared \cup {m.handles + 2},
                 !.monitoringInterval = m.handles + 2,
                 !.handles = @ + 2]

monitorFrame == <<atRestVarsNoNotif, handler, store, startup, db, notif>>

\* client.on('ready'): the client is ready, at login and after a reconnection.
ReadyEvent ==
    /\ monitor.ready < MaxReady
    /\ monitor' = [StartNotificationMonitoring(monitor) EXCEPT !.ready = @ + 1]
    /\ UNCHANGED monitorFrame

\* The timer of setTimeout(..., 5000) fires: runMonitoringCycle is awaited.
TimeoutFires(h) ==
    /\ h \in monitor.timeouts
    /\ monitor.cycles + monitor.watched < MaxCycles
    /\ monitor' = [monitor EXCEPT !.timeouts = @ \ {h}, !.cycles = @ + 1]
    /\ UNCHANGED monitorFrame

\* A repeating timer fires: the callback sets its 4 min timeout and awaits
\* runMonitoringCycle.
IntervalFires(h) ==
    /\ h \in monitor.intervals
    /\ monitor.cycles + monitor.watched < MaxCycles
    /\ monitor' = [monitor EXCEPT !.watched = @ + 1]
    /\ UNCHANGED monitorFrame

\* runMonitoringCycle resolved in the callback of setTimeout.
CycleSettles ==
    /\ monitor.cycles > 0
    /\ monitor' = [monitor EXCEPT !.cycles = @ - 1]
    /\ UNCHANGED monitorFrame

\* runMonitoringCycle resolved in the callback of setInterval: clearTimeout.
WatchedCycleSettles ==
    /\ monitor.watched > 0
    /\ monitor' = [monitor EXCEPT !.watched = @ - 1]
    /\ UNCHANGED monitorFrame

InitMonitor ==
    /\ NotifAtRest
    /\ notif = NoNotif
    /\ monitor = NoMonitor

NextMonitor ==
    \/ ReadyEvent
    \/ \E h \in monitor.timeouts : TimeoutFires(h)
    \/ \E h \in monitor.intervals : IntervalFires(h)
    \/ CycleSettles
    \/ WatchedCycleSettles

SpecMonitor == InitMonitor /\ [][NextMonitor]_vars

\* ================================================================ claims
\* The backfill loop and the executions of tick.
Executions == InFlight \cup {bf}

Rows(rows) == {rows[i] : i \in 1..Len(rows)}

\* C1: the persisted checkpoint is never ahead of the scan: every height from
\* the start of the backfill up to the checkpoint has been covered by a
\* querySlice call that completed.
C1_CheckpointNotAheadOfScan ==
    progress > 0 => \A h \in origin..progress : h \in scanned

\* C1 witness: after a restart, with two executions of tick in flight, a
\* checkpoint above the start of the backfill is stored.
C1_Witness ==
    /\ progress > origin
    /\ mainPc = "live"
    /\ restarts > 0
    /\ BagCardinality(ticks) = 2

\* The (identifier, amount) entries of a TransferSingle log that are addressed
\* to the watched account and are in the watch-set.
WatchedOfSingle(ev) ==
    IF ToLowerCase(ev.to) = WATCH_WALLET /\ ev.id \in WATCH_TOKEN_IDS
    THEN {<<ev.id, ev.value>>} ELSE {}

\* The same for a TransferBatch log.
WatchedOfBatch(ev) ==
    IF ToLowerCase(ev.to) = WATCH_WALLET
    THEN {<<ev.ids[i], ev.values[i]>> :
            i \in {j \in 1..Len(ev.ids) : ev.ids[j] \in WATCH_TOKEN_IDS}}
    ELSE {}

\* Some stored row has this transaction hash and holds this entry.
Recorded(hash, entry) ==
    \E row \in Rows(db) :
        /\ ToLowerCase(row.txHash) = ToLowerCase(hash)
        /\ \E j \in 1..Len(row.tokenIds) :
              row.tokenIds[j] = entry[1] /\ row.amounts[j] = entry[2]

\* C2: no matching transfer is missed: once a height has been scanned, every
\* watched entry of every transfer event of that height addressed to the
\* watched account is held by a stored row with the event's transaction hash.
C2_NoMatchingTransferMissed ==
    \A h \in scanned :
        IF script = "items"
        THEN /\ \A i \in 1..Len(SingleLogs) :
                  SingleLogs[i].blockNumber = h =>
                      \A e \in WatchedOfSingle(SingleLogs[i]) :
                          Recorded(SingleLogs[i].transactionHash, e)
             /\ \A i \in 1..Len(BatchLogs) :
                  BatchLogs[i].blockNumber = h =>
                      \A e \in WatchedOfBatch(BatchLogs[i]) :
                          Recorded(BatchLogs[i].transactionHash, e)
        ELSE \A i \in 1..Len(TransferLogs) :
                  (/\ TransferLogs[i].blockNumber = h
                   /\ ToLowerCase(TransferLogs[i].to) = WATCH_WALLET) =>
                      \E row \in Rows(db) :
                          /\ ToLowerCase(row.txHash)
                               = ToLowerCase(TransferLogs[i].transactionHash)
                          /\ row.tokenId = TransferLogs[i].tokenId

\* The rows a step adds to the store.
NewRows == Rows(db') \ Rows(db)

\* The key enrichAndPersist looks a row up by: the transaction hash in the
\* ERC-1155 monitor, makeKey in egg_premium.js.
KeyStored(rows, row) ==
    IF script = "items" THEN TxHashExists(rows, ToLowerCase(row.txHash))
    ELSE \E x \in Rows(rows) : MakeKey(x) = MakeKey(row)

C5_TicksSerialized == BagCardinality(ticks) <= 1

C7_ConfirmationLag ==
    \A r \in InFlight :
        r.pc \in {"query", "enrich", "sliced"} =>
            r.sliceEnd <= r.head - CONFIRMATIONS

\* C7 witness: a tick has scanned up to exactly H - C with C > 0.
C7_Witness ==
    \E r \in InFlight :
        /\ r.pc = "sliced"
        /\ CONFIRMATIONS > 0
        /\ r.sliceEnd = r.head - CONFIRMATIONS

\* C8: the sub-ranges of both loops are ascending, contiguous (each starts one
\* above the end of the one before) and of width at most maxSize; when the
\* loop ends they cover [start, end] exactly once, and there is none when
\* start > end.
C8_ChunkContiguity ==
    LET out == sched.out
        n == Len(out)
    IN /\ \A i \in 1..n :
             /\ out[i][1] <= out[i][2]
             /\ out[i][2] - out[i][1] <= sched.maxSize
             /\ out[i][2] <= sched.end
             /\ i < n => out[i][2] + 1 = out[i + 1][1]
       /\ n > 0 => out[1][1] = sched.start
       /\ sched.pc = "done" =>
             IF sched.start > sched.end THEN n = 0
             ELSE n > 0 /\ out[n][2] = sched.end

\* C8 witness: a loop has ended after three or more sub-ranges, the last one
\* narrower than maxSize.
C8_Witness ==
    /\ sched.pc = "done"
    /\ Len(sched.out) >= 3
    /\ sched.out[Len(sched.out)][2] - sched.out[Len(sched.out)][1] < sched.maxSize

\* The scenario of C9 has run to the end of the loop.
C9_Scenario ==
    /\ sched.pc = "done"
    /\ sched.start = 0
    /\ sched.end = 250
    /\ sched.maxSize = 100

\* C9 as claimed: maxSize 100 over [0, 250] gives [0,100], [101,200], [201,250].
C9_Original ==
    C9_Scenario => sched.out = << <<0, 100>>, <<101, 200>>, <<201, 250>> >>

\* C9 amended: maxSize 100 over [0, 250] gives [0,100], [101,201], [202,250],
\* in both loops: a sub-range spans maxSize + 1 heights.
C9_Ranges ==
    C9_Scenario => sched.out = << <<0, 100>>, <<101, 201>>, <<202, 250>> >>

\* C9 witness: the scenario has run to its end in the loop of tick.
C9_Witness == C9_Scenario /\ sched.loop = "poll"

\* C10: whatever step of a tick fails, the failing step leaves lastProcessed
\* and the persisted checkpoint as they were (no earlier step of the tick
\* writes them), and the timer keeps running.
C10_TickFailureKeepsCheckpoint ==
    [][\A r \in InFlight :
          (TickError(r) \/ TickSaveError(r)) =>
              /\ lastProcessed' = lastProcessed
              /\ progress' = progress
              /\ mainPc' = "live"]_vars

\* C11: when the retrieval or the normalization of a backfill sub-range fails,
\* main ends without startLivePoll (no tick is in flight, and none starts
\* until the process is started again) and the persisted checkpoint stays the
\* end of the last sub-range the run completed (the checkpoint the run loaded
\* when it completed none).
C11_BackfillFailureAborts ==
    [][/\ (BackfillError /\ bf.pc \in {"query", "enrich"}) =>
             /\ mainPc' = "exited"
             /\ ticks' = EmptyBag
             /\ progress' = progress
             /\ progress = IF bf.cursor > bf.fromBlock THEN bf.cursor - 1
                           ELSE bf.cp0
       /\ mainPc = "exited" =>
             \/ mainPc' = "exited" /\ ticks' = EmptyBag
             \/ restarts' = restarts + 1]_vars

\* C11 witness: a first run has ended in its backfill after a completed
\* sub-range: the checkpoint is that sub-range's end and the next height was
\* not scanned.
C11_Witness ==
    /\ mainPc = "exited"
    /\ restarts = 0
    /\ progress > 0
    /\ progress < head
    /\ (progress + 1) \notin scanned

\* C12: no execution of tick is in flight while the backfill runs, and the
\* step that starts the first tick after a backfill is the one that
\* checkpoints the backfill's last sub-range, which ends at latest.
C12_BackfillBeforePolling ==
    [][/\ mainPc' = "backfill" => ticks' = EmptyBag
       /\ ticks' # EmptyBag => bf'.pc = "idle"
       /\ (mainPc = "backfill" /\ ticks' # EmptyBag) =>
             /\ bf.pc = "sliced"
             /\ bf.sliceEnd = bf.head
             /\ progress' = bf.sliceEnd
             /\ scanned' = scanned \cup (bf.cursor..bf.sliceEnd)]_vars

\* C12 witness: the first tick is in flight after a backfill whose last
\* sub-range is scanned and checkpointed.
C12_Witness ==
    /\ mainPc = "firstTick"
    /\ ticks # EmptyBag
    /\ restarts = 0
    /\ progress > 0
    /\ progress \in scanned

\* C13: no step makes the persisted checkpoint smaller.
C13_CheckpointNeverDecreases == [][progress' >= progress]_vars

\* C14: an event whose receiver is not the watched account (compared in lower
\* case) makes no call of enrichAndPersist, whatever its identifiers and
\* amounts, and the store stays as it was.
C14_ReceiverFiltering ==
    (handler.pc \in {"enrich", "done"}
       /\ ToLowerCase(handler.ev.to) # ToLowerCase("0xWALLET")) =>
        /\ handler.pc = "done"
        /\ handler.calls = <<>>
        /\ db = handler.db0

\* C14 witness: a TransferBatch of watched identifiers with non-zero amounts,
\* addressed to another account, has been handled.
C14_Witness ==
    /\ handler.pc = "done"
    /\ handler.isBatch
    /\ handler.ev.to = "0xOther"
    /\ handler.ev.ids = <<5, 74>>
    /\ handler.ev.values = <<3, 7>>
    /\ handler.db0 # <<>>

\* The indices of ids, in order, that Keep(i) holds for.
KeptIndices(ids, Keep(_)) ==
    SelectSeq([i \in 1..Len(ids) |-> i], Keep)

\* What C15 expects of a handled TransferBatch addressed to the watched
\* account, given the indices of the entries to keep: no call when there is
\* none, else one call with the kept identifiers and their own amounts, in
\* the event's order, and (over an empty store) one row holding them.
BatchYields(kept) ==
    LET ev == handler.ev
        ids == [k \in 1..Len(kept) |-> ev.ids[kept[k]]]
        amounts == [k \in 1..Len(kept) |-> ev.values[kept[k]]]
    IN IF kept = <<>>
       THEN handler.pc = "done" /\ handler.calls = <<>> /\ db = handler.db0
       ELSE /\ Len(handler.calls) = 1
            /\ handler.calls[1].tokenIds = ids
            /\ handler.calls[1].amounts = amounts
            /\ (handler.pc = "done" /\ handler.db0 = <<>>) =>
                  /\ Len(db) = 1
                  /\ db[1].tokenIds = ids
                  /\ db[1].amounts = amounts

\* A TransferBatch addressed to the watched account has been handled.
BatchHandled ==
    /\ handler.pc \in {"enrich", "done"}
    /\ handler.isBatch
    /\ ToLowerCase(handler.ev.to) = ToLowerCase("0xWALLET")

\* C15 as claimed: the record of a TransferBatch holds exactly the entries
\* whose identifier is in the watch-set.
C15_Original ==
    BatchHandled =>
        BatchYields(KeptIndices(handler.ev.ids,
                                LAMBDA i : handler.ev.ids[i] \in WATCH_TOKEN_IDS))

\* C15 amended: the record of a TransferBatch holds exactly the entries whose
\* identifier is in the watch-set and whose amount is not zero, in the event's
\* order, each with its own amount; there is no record when there is no such
\* entry.
C15_PerEntryBatchFiltering ==
    BatchHandled =>
        BatchYields(KeptIndices(handler.ev.ids,
                                LAMBDA i : /\ handler.ev.ids[i] \in WATCH_TOKEN_IDS
                                           /\ handler.ev.values[i] # 0))

\* C15 witness: ids [5, 999] with amounts [3, 7] have given one row with ids
\* [5] and amounts [3].
C15_Witness ==
    /\ handler.pc = "done"
    /\ handler.isBatch
    /\ handler.ev.to = "0xWallet"
    /\ handler.ev.ids = <<5, 999>>
    /\ handler.ev.values = <<3, 7>>
    /\ handler.db0 = <<>>
    /\ Len(db) = 1
    /\ db[1].tokenIds = <<5>>
    /\ db[1].amounts = <<3>>
    /\ db[1].totalAmount = 3

\* The sum of the first n amounts.
RECURSIVE TotalUpTo(_, _)
TotalUpTo(amounts, n) ==
    IF n = 0 THEN 0 ELSE TotalUpTo(amounts, n - 1) + amounts[n]

\* The TransferSingle log i creates a row when its height is scanned: it is
\* addressed to the watched account, its identifier is watched, its amount is
\* not zero, and no earlier TransferSingle log belongs to its transaction.
SingleCreatesRow(i) ==
    /\ WatchedOfSingle(SingleLogs[i]) # {}
    /\ SingleLogs[i].value # 0
    /\ \A j \in 1..(i - 1) :
          ToLowerCase(SingleLogs[j].transactionHash)
              # ToLowerCase(SingleLogs[i].transactionHash)

\* C16: in the ERC-1155 monitor every stored row's totalAmount is the sum of
\* its amounts, and once the height of a TransferSingle log that creates a row
\* is scanned, the store holds exactly one row with its transaction hash, and
\* that row's only amount and its totalAmount are the log's amount.
C16_DerivedTotal ==
    script = "items" =>
        /\ \A row \in Rows(db) :
              row.totalAmount = TotalUpTo(row.amounts, Len(row.amounts))
        /\ \A i \in 1..Len(SingleLogs) :
              (SingleCreatesRow(i) /\ SingleLogs[i].blockNumber \in scanned) =>
                  LET same == {k \in 1..Len(db) :
                                  ToLowerCase(db[k].txHash)
                                    = ToLowerCase(SingleLogs[i].transactionHash)}
                  IN /\ Cardinality(same) = 1
                     /\ \A k \in same :
                           /\ db[k].amounts = <<SingleLogs[i].value>>
                           /\ db[k].totalAmount = SingleLogs[i].value

\* C16 witness: blocks 1 and 2 are scanned; the store holds the row of the
\* batch of block 1 (two amounts, total 7) and the row of the TransferSingle
\* of block 2 (total 2).
C16_Witness ==
    /\ script = "items"
    /\ {1, 2} \subseteq scanned
    /\ \E row \in Rows(db) : Len(row.amounts) = 2 /\ row.totalAmount = 7
    /\ \E row \in Rows(db) : row.txHash = "0xB2" /\ row.totalAmount = 2

\* C17: the stored rows are in order of non-increasing blockNumber.
C17_SortedByHeightDescending ==
    \A i, j \in 1..Len(db) : i < j => db[i].blockNumber >= db[j].blockNumber

\* C17 witness: after a restart and a re-scan the store holds rows of
\* different heights, the higher first.
C17_Witness ==
    /\ restarts > 0
    /\ Len(db) >= 2
    /\ db[1].blockNumber > db[Len(db)].blockNumber
    /\ \E r \in Executions :
          r.pc = "sliced" /\ \A h \in r.cursor..r.sliceEnd : h \in scanned

\* C19: the backfill starts at max(0, checkpoint - CONFIRMATIONS) when the
\* stored checkpoint is > 0, whatever FROM_BLOCK is; else at FROM_BLOCK when
\* it is set; else at max(0, latest - INIT_LOOKBACK).  (When that height is
\* above latest the loop runs no iteration and the first tick starts.)
C19_BackfillStartHeight ==
    [][(mainPc = "boot" /\ mainPc' \in {"backfill", "firstTick"}) =>
          LET start ==
                IF progress > 0
                THEN (IF progress - CONFIRMATIONS > 0
                      THEN progress - CONFIRMATIONS ELSE 0)
                ELSE IF FROM_BLOCK # NoFromBlock THEN FROM_BLOCK
                ELSE (IF head - INIT_LOOKBACK > 0
                      THEN head - INIT_LOOKBACK ELSE 0)
          IN IF start <= head
             THEN /\ mainPc' = "backfill"
                  /\ bf'.fromBlock = start
                  /\ bf'.cursor = start
             ELSE mainPc' = "firstTick"]_vars

\* C19 witness: a backfill resumed from a checkpoint while FROM_BLOCK is set,
\* at a height that is not FROM_BLOCK.
C19_Witness ==
    /\ restarts > 0
    /\ mainPc = "backfill"
    /\ bf.cp0 > 0
    /\ FROM_BLOCK # NoFromBlock
    /\ bf.fromBlock # FROM_BLOCK
    /\ bf.fromBlock = Max(0, bf.cp0 - CONFIRMATIONS)

\* C18: whatever the files hold, nothing raises a TypeError; loadProgress
\* returns 0 for every content that is not a checkpoint document, and loadDb
\* yields the empty list for every content that is not a list of rows.
C18_StorageCorruptionNeverFatal ==
    store.pc # "off" =>
        /\ store.error # "TypeError"
        /\ (store.pc = "run" /\ store.progressFile.kind # "checkpoint") =>
              store.loaded = [kind |-> "number", n |-> 0]
        /\ (store.pc = "run" /\ store.dbFile.kind # "array") =>
              LoadDbFile(store.dbFile) = File("array", 0, <<>>)

\* The rows a reader of OUT_PATH finds.
SavedRows(file) == IF file.kind = "array" THEN Rows(file.rows) ELSE {}

\* C20: a row that OUT_PATH holds is held, unchanged, by every later content
\* of OUT_PATH.
C20_AppendOnly ==
    [][SavedRows(store.dbFile) \subseteq SavedRows(store'.dbFile)]_vars

\* C21 as claimed: with a missing or malformed WATCH_WALLET or contract
\* address the script fails when it loads, before any call to the chain (no
\* step of the start of the script writes a file).
C21_Original ==
    (/\ startup.pc \notin {"off", "load"}
     /\ \/ startup.watchWallet \in {"missing", "malformed"}
        \/ startup.contractAddress \in {"missing", "malformed"}) =>
        /\ startup.pc = "failed"
        /\ startup.chainCalls = 0
        /\ progress = 0
        /\ db = <<>>

\* C21 amended: the same for a missing or malformed WATCH_WALLET, a malformed
\* contract address, and a missing contract address of egg_premium.js; the
\* ERC-1155 monitor takes its built-in address for a missing one and starts.
C21_StartupValidation ==
    /\ (/\ startup.pc \notin {"off", "load"}
        /\ \/ startup.watchWallet \in {"missing", "malformed"}
           \/ startup.contractAddress = "malformed"
           \/ startup.contractAddress = "missing" /\ script = "egg") =>
           /\ startup.pc = "failed"
           /\ startup.chainCalls = 0
           /\ progress = 0
           /\ db = <<>>
    /\ (/\ startup.pc \notin {"off", "load"}
        /\ script = "items"
        /\ startup.watchWallet \in {"lowercase", "checksummed"}
        /\ startup.contractAddress = "missing") => startup.pc # "failed"

\* C21 witness: the script has failed on a malformed contract address beside a
\* well-formed WATCH_WALLET.
C21_Witness ==
    /\ startup.pc = "failed"
    /\ startup.watchWallet = "checksummed"
    /\ startup.contractAddress = "malformed"
    /\ startup.chainCalls = 0

\* C22: no execution, of the backfill or of tick, queries a height above
\* H - CONFIRMATIONS, with H the head it read.
C22_ConfirmationDepthEverywhere ==
    \A r \in Executions :
        r.pc \in {"query", "enrich", "sliced"} =>
            r.sliceEnd <= r.head - CONFIRMATIONS

\* C23: whatever a kill inside saveProgress leaves in the progress file, the
\* checkpoint loadProgress returns is not above the highest height of a
\* sub-range that was completed.
C23_CrashSafeCheckpoint ==
    LoadProgress > 0 => \E h \in scanned : LoadProgress <= h

\* C23 witness: the process was killed inside saveProgress after sub-ranges
\* up to a height above 0 were completed, and the file reads as 0.
C23_Witness ==
    /\ mainPc = "crashed"
    /\ LoadProgress = 0
    /\ \E h \in scanned : h > 0

\* C24: while the backfill runs, the checkpoint is written only by the step
\* that follows the end of a sub-range's querySlice; that step writes the
\* sub-range's end and only then is the next sub-range, which starts above
\* that end, queried; the steps of querySlice stay in their sub-range and
\* leave the checkpoint alone.
C24_BackfillCheckpointPerSubRange ==
    [][(mainPc = "backfill" /\ mainPc' \in {"backfill", "firstTick"}) =>
          /\ (bf.pc = "sliced" /\ bf' # bf) =>
                /\ progress' = bf.sliceEnd
                /\ bf.cursor..bf.sliceEnd \subseteq scanned'
                /\ mainPc' = "backfill" =>
                      /\ bf'.pc = "query"
                      /\ bf'.cursor = bf.sliceEnd + 1
          /\ bf.pc # "sliced" =>
                /\ progress' = progress
                /\ bf'.cursor = bf.cursor
                /\ bf'.sliceEnd = bf.sliceEnd
                /\ mainPc' = "backfill"]_vars

\* C24 witness: the second sub-range of a backfill is being queried and the
\* checkpoint is the end of the first, which spans two heights.
C24_Witness ==
    /\ mainPc = "backfill"
    /\ bf.pc = "query"
    /\ bf.cursor = bf.fromBlock + 2
    /\ progress = bf.cursor - 1
    /\ progress \in scanned

\* C25: an execution of tick writes the checkpoint in one step only, the one
\* after its last sub-range, and writes safeHead = head - CONFIRMATIONS there;
\* its other steps, the one between two sub-ranges among them, leave the
\* checkpoint alone.
C25_TickCheckpointOnce ==
    [][\A r \in InFlight :
          /\ TickSliceDone(r) =>
                IF r.sliceEnd + 1 <= r.safeHead
                THEN progress' = progress /\ lastProcessed' = lastProcessed
                ELSE /\ progress' = r.head - CONFIRMATIONS
                     /\ lastProcessed' = progress'
                     /\ r.sliceEnd = r.head - CONFIRMATIONS
          /\ (\/ GetBlockNumberReturns(r)
              \/ TickQueryFilterReturns(r)
              \/ TickGetBlockReturns(r)) => progress' = progress]_vars

\* C25 witness: a tick is in its second sub-range and the checkpoint is still
\* the one it started from.
C25_Witness ==
    \E r \in InFlight :
        /\ r.pc = "query"
        /\ r.cursor = lastProcessed + 2
        /\ r.cursor <= r.safeHead
        /\ progress = lastProcessed
        /\ BagCardinality(ticks) = 1

\* C26: a tick that finds safeHead <= lastProcessed returns at once: it makes
\* no query and leaves lastProcessed, the checkpoint and the store as they are.
C26_NoOpTick ==
    [][\A r \in InFlight :
          (GetBlockNumberReturns(r) /\ head - CONFIRMATIONS <= lastProcessed) =>
              /\ ticks' = Finish(r)
              /\ lastProcessed' = lastProcessed
              /\ progress' = progress
              /\ db' = db
              /\ scanned' = scanned]_vars

\* C26 witness: the first tick has returned while safeHead is below
\* lastProcessed (the backfill went up to the head); nothing is in flight and
\* the checkpoint is the backfill's.
C26_Witness ==
    /\ mainPc = "live"
    /\ ticks = EmptyBag
    /\ head - CONFIRMATIONS < lastProcessed
    /\ progress = lastProcessed
    /\ progress \in scanned
    /\ restarts = 0

\* The head scanHistorical read at its entry, seen from the step in which it
\* returns.
EntryHead == IF mainPc = "backfill" THEN bf.head ELSE head

PendingTransactions(r) ==
    {ToLowerCase(r.pending[i].transactionHash) : i \in 1..Len(r.pending)}

\* C28: each enrichAndPersist call awaits one provider.getBlock, so the
\* lookups a sub-range still needs are the calls that are pending; the claim
\* allows one per distinct transaction.
C28_OneLookupPerTransaction ==
    \A r \in Executions :
        r.pc = "enrich" => Len(r.pending) = Cardinality(PendingTransactions(r))

\* C29: on the same start, end and CHUNK the loop of scanHistorical and the
\* loop of tick go through the same sub-ranges: what either loop has produced
\* when it ends is what the other one produces.
C29_SameChunking ==
    sched.pc = "done" =>
        /\ sched.out = BackfillRanges(sched.start, sched.end, sched.maxSize)
        /\ sched.out = PollRanges(sched.start, sched.end, sched.maxSize)

\* C29 witness: the loop of scanHistorical has ended after two sub-ranges or
\* more, with CHUNK above 0 and a start above 0.
C29_Witness ==
    /\ sched.pc = "done"
    /\ sched.loop = "backfill"
    /\ sched.maxSize > 0
    /\ sched.start > 0
    /\ Len(sched.out) >= 2

\* Every enrichAndPersist call of the heights start..end has been made: its
\* row is in the store (for the ERC-1155 monitor, a row of its transaction).
AllPersisted(start, end) ==
    LET calls == QuerySlice(start, end)
    IN \A i \in 1..Len(calls) :
          IF script = "items"
          THEN \E x \in Rows(db) :
                  ToLowerCase(x.txHash) = ToLowerCase(calls[i].transactionHash)
          ELSE \E x \in Rows(db) :
                  /\ ToLowerCase(x.txHash) = ToLowerCase(calls[i].transactionHash)
                  /\ x.tokenId = calls[i].tokenId

\* C30: an execution (the backfill or a tick) whose querySlice has resolved
\* has persisted every matching event of that sub-range, and it queries its
\* next sub-range only from there: in the backfill, every height from its
\* start up to the sub-range it queries is persisted.
C30_SequentialSubRanges ==
    /\ \A r \in Executions :
          r.pc = "sliced" => AllPersisted(r.cursor, r.sliceEnd)
    /\ (mainPc = "backfill" /\ bf.pc = "query") =>
          AllPersisted(bf.fromBlock, bf.cursor - 1)
    /\ \A r \in InFlight :
          (r.pc = "query" /\ r.cursor > lastProcessed + 1) =>
              AllPersisted(lastProcessed + 1, r.cursor - 1)

\* C30 witness: a tick queries its second sub-range and the first one held a
\* matching event.
C30_Witness ==
    \E r \in InFlight :
        /\ r.pc = "query"
        /\ r.cursor > lastProcessed + 1
        /\ QuerySlice(lastProcessed + 1, r.cursor - 1) # <<>>

\* C31: both loops end, on every start, end and maxSize (each iteration's
\* chain calls returning), and a loop whose start is above its end produces
\* no sub-range.
C31_SchedulingTerminates ==
    /\ <>(sched.pc = "done")
    /\ [](sched.start > sched.end => sched.out = <<>>)

\* C31 witness: a loop with maxSize 0 has ended after a sub-range for each
\* height of a range of four heights or more.
C31_Witness ==
    /\ sched.pc = "done"
    /\ sched.maxSize = 0
    /\ sched.end - sched.start >= 3
    /\ Len(sched.out) = sched.end - sched.start + 1

\* C32: when the process ends or is killed during the backfill, the heights
\* already scanned that the next run's backfill scans again (those from its
\* start height on, the head being what it is) are at most CHUNK + 1, one
\* sub-range's width.
C32_BoundedRework ==
    [][(mainPc = "backfill" /\ mainPc' \in {"boot", "crashed", "exited"}) =>
          LET start == FromBlock(head)'
          IN Cardinality({h \in scanned' : h >= start}) <= CHUNK + 1]_vars

\* C33: in the ERC-1155 monitor every stored row has the watched account as
\* receiver, at least one identifier, identifiers of the watch-set only, and
\* as many amounts as identifiers.
C33_RecordWellFormed ==
    \A row \in Rows(db) :
        /\ row.receivedTo = ToLowerCase("0xWALLET")
        /\ Len(row.tokenIds) > 0
        /\ \A k \in 1..Len(row.tokenIds) : row.tokenIds[k] \in WATCH_TOKEN_IDS
        /\ Len(row.amounts) = Len(row.tokenIds)

\* C33 witness: the row of a TransferBatch with two watched entries, received
\* under an address written in upper case, was added to a store with a row.
C33_Witness ==
    /\ handler.pc = "done"
    /\ handler.isBatch
    /\ handler.ev.to = "0xWALLET"
    /\ Len(db) = 2
    /\ db[1].tokenIds = <<5, 74>>

C36_ZeroNeverRecorded ==
    /\ (/\ handler.pc \in {"enrich", "done"}
        /\ ~handler.isBatch
        /\ (handler.ev.value = 0 \/ handler.ev.id = 0)) =>
           /\ handler.calls = <<>>
           /\ db = handler.db0
    /\ \A i \in 1..Len(handler.calls) :
          \A k \in 1..Len(handler.calls[i].amounts) :
              /\ handler.calls[i].amounts[k] > 0
              /\ handler.calls[i].tokenIds[k] # 0
    /\ \A row \in Rows(db) :
          \A k \in 1..Len(row.amounts) : row.amounts[k] > 0

\* C36 witness: a TransferBatch to the watched account whose first entry is a
\* watched identifier with amount 0 has given a row with its second entry only.
C36_Witness ==
    /\ handler.pc = "done"
    /\ handler.isBatch
    /\ handler.ev.ids = <<5, 74>>
    /\ handler.ev.values = <<0, 7>>
    /\ handler.db0 = <<>>
    /\ Len(db) = 1
    /\ db[1].tokenIds = <<74>>
    /\ db[1].amounts = <<7>>

\* C35: once polling is on and a height h, above the checkpoint and above
\* lastProcessed, is at least `confirmations` below the head, the persisted
\* checkpoint becomes h or more (every step of tick succeeding in the end,
\* the timer firing for ever).
C35_PollingProgress ==
    \A h \in 1..MaxHead :
        (/\ mainPc \in {"firstTick", "live"}
         /\ progress < h
         /\ lastProcessed < h
         /\ h <= head - CONFIRMATIONS) ~> (progress >= h)

\* The listing of the stored alert with this id, if the alert and the
\* listing are still stored.
StoredListings(id) ==
    IF notif.row.exists
    THEN {l \in Rows(notif.row.listing_ids) : l.id = id}
    ELSE {}

\* The stored listing_ids shows every listing the undercut check notified as
\* removed or with the status 'undercut_sent'.
UndercutReflected ==
    \A id \in notif.uc.sent :
        \A l \in StoredListings(id) : l.status = "undercut_sent"

\* C37: when a run of checkUndercutNotifications has ended (nothing else
\* writing the alert), every listing it sent a notification for is removed
\* from the stored listing_ids or stored with the status 'undercut_sent'.
C37_UndercutStatusRecorded ==
    (notif.uc.pc = "done" /\ notif.sold.pc = "off") => UndercutReflected

\* The stored listing_ids shows what the sold check wrote: the alert deleted
\* for an invalid user; otherwise no listing it found gone or completed, and
\* the last_remaining_amount it set in every listing that is still stored.
SoldReflected ==
    LET sold == notif.sold
    IN IF sold.invalidUser THEN ~notif.row.exists
       ELSE sold.alertModified =>
              \A l \in (IF notif.row.exists THEN Rows(notif.row.listing_ids) ELSE {}) :
                  \E k \in 1..Len(sold.selectedListings) :
                      /\ sold.selectedListings[k].id = l.id
                      /\ sold.selectedListings[k].status # "completed"
                      /\ sold.selectedListings[k].last_remaining_amount =
                             l.last_remaining_amount

\* C38: when both checks of a cycle have ended - the undercut check having
\* notified one listing at most - the stored listing_ids shows the changes
\* of the sold check and those of the undercut check.
C38_NoLostUpdate ==
    (/\ notif.uc.pc = "done"
     /\ notif.sold.pc = "done"
     /\ Cardinality(notif.uc.sent) <= 1) => (SoldReflected /\ UndercutReflected)

\* C39: after every call of startNotificationMonitoring one repeating timer
\* is active, the one whose handle monitoringInterval holds, and the call
\* leaves no timer registered by an earlier call active.
C39_OneMonitoringInterval ==
    /\ [](monitor.ready > 0 =>
            /\ Cardinality(monitor.intervals) = 1
            /\ monitor.intervals = {monitor.monitoringInterval})
    /\ [][monitor'.ready # monitor.ready =>
            \A h \in monitor.intervals : h \notin monitor'.intervals]_vars

\* C39 witness: startNotificationMonitoring was called three times, a cycle
\* started by a repeating timer is in flight, and the one active repeating
\* timer is the one the third call registered.
C39_Witness ==
    /\ monitor.ready = 3
    /\ monitor.watched > 0
    /\ monitor.handles = 6
    /\ monitor.intervals = {6}
    /\ monitor.monitoringInterval = 6

====
